---------------------------- MODULE Spec2Model ----------------------------
(***************************************************************************)
(* Model of the user-management subsystem of k8s-provisioner               *)
(* (internal/user/user.go and cmd/user.go): CreateUser, DeleteUser,        *)
(* ListUsers and CreateRole acting on the local registry directory, the    *)
(* cluster's CertificateSigningRequest API and its RBAC API.               *)
(*                                                                         *)
(* Strings that the code builds or matches with "-" (binding names, CSR    *)
(* names, the prefix username+"-") are sequences of hyphen-free atoms:     *)
(* <<"a","b">> is the string "a-b", <<>> is the empty string, and          *)
(* Sprintf("%s-%s-binding", u, r) is u \o r \o <<"binding">>.              *)
(* An optional value (a file that may be missing, an in-memory value not   *)
(* yet computed) is <<>> or <<v>>.                                         *)
(***************************************************************************)
EXTENDS Integers, Sequences, FiniteSets, TLC

\* ------------------------------------------------------------------ bounds

\* Operations (create, delete, list, create-role) started in one behaviour.
MaxCalls == 2
\* Polls of waitForCertificate that fit before its deadline (30s at 1s each in
\* the code, scaled down).
PollBudget == 2

\* ------------------------------------------------------------ input domains

Usernames == {<<"a">>, <<"a", "b">>}
GroupLists == {<<>>, <<"dev">>}
ClusterRoleArgs == {<<>>, <<"view">>, <<"b", "view">>}
RoleArgs == {<<>>, <<"developer">>}
Namespaces == {"dev", "qa"}
NamespaceArgs == {"", "dev"}
ExpirationArgs == {365}

UserConfigs ==
    [Username : Usernames, Groups : GroupLists, Namespace : NamespaceArgs,
     ClusterRole : ClusterRoleArgs, Role : RoleArgs, Expiration : ExpirationArgs]

NoConfig ==
    [Username |-> <<>>, Groups |-> <<>>, Namespace |-> "",
     ClusterRole |-> <<>>, Role |-> <<>>, Expiration |-> 0]

\* --------------------------------------------------------------- strings

\* Faulty variant of HasUserPrefix: the name compared with the username itself.
HasUserPrefix_exact(name, username) == name = username

HasPrefix(name, prefix) ==
    /\ Len(name) >= Len(prefix)
    /\ SubSeq(name, 1, Len(prefix)) = prefix

\* strings.HasPrefix(b.Name, username+"-"): the name continues after the hyphen
\* with at least the (possibly empty) rest; in atoms, username is a proper
\* prefix of the name.
HasUserPrefix(name, username) ==
    /\ Len(name) > Len(username)
    /\ HasPrefix(name, username)

BindingName(username, role) == username \o role \o <<"binding">>

CsrName(username) == username \o <<"csr">>

ContextName(username, clusterName) == username \o <<"@", clusterName>>

\* int32(expirationDays * 24 * 60 * 60): the product taken modulo 2^32 and read
\* as a signed 32-bit value. 86400 = 675 * 2^7, so the product modulo 2^32 is
\* 2^7 * ((expirationDays * 675) modulo 2^25); computed this way every
\* intermediate value stays below 2^31 for expirationDays up to 3 000 000.
ExpirationSeconds(expirationDays) ==
    LET m == (expirationDays * 675) % (2 ^ 25)
    IN  (IF m >= 2 ^ 24 THEN m - 2 ^ 25 ELSE m) * 128

\* ------------------------------------------------------------ key material

PrivateKeyPEM(k) == [type |-> "RSA PRIVATE KEY", priv |-> k]

\* Faulty variant of createCSR: the groups are left out of the subject.
createCSR_noGroups(k, username, groups) ==
    [type |-> "CERTIFICATE REQUEST", pub |-> k, cn |-> username, org |-> <<>>]

\* The CSR for key k: subject CommonName username, Organization groups.
createCSR(k, username, groups) ==
    [type |-> "CERTIFICATE REQUEST", pub |-> k, cn |-> username, org |-> groups]

\* Faulty variant of SignedCertificate: the certificate carries the signer's own
\* public key instead of the request's.
SignedCertificate_signersKey(request) ==
    [type |-> "CERTIFICATE", pub |-> 0, cn |-> request.cn, org |-> request.org]

\* The cluster's signer copies the subject and public key of the request.
SignedCertificate(request) ==
    [type |-> "CERTIFICATE", pub |-> request.pub, cn |-> request.cn,
     org |-> request.org]

\* ------------------------------------------------------------ RBAC objects

Subject(kind, name) ==
    [Kind |-> kind, Name |-> name, APIGroup |-> "rbac.authorization.k8s.io"]

RECURSIVE GroupSubjects(_)
GroupSubjects(groups) ==
    IF groups = <<>> THEN <<>>
    ELSE <<Subject("Group", <<Head(groups)>>)>> \o GroupSubjects(Tail(groups))

Subjects(username, groups) ==
    <<Subject("User", username)>> \o GroupSubjects(groups)

ClusterRoleBinding(username, groups, clusterRole) ==
    [Name |-> BindingName(username, clusterRole),
     Subjects |-> Subjects(username, groups),
     RoleRef |-> [Kind |-> "ClusterRole", Name |-> clusterRole,
                  APIGroup |-> "rbac.authorization.k8s.io"]]

RoleBinding(username, groups, role, namespace) ==
    [Name |-> BindingName(username, role),
     Namespace |-> namespace,
     Subjects |-> Subjects(username, groups),
     RoleRef |-> [Kind |-> "Role", Name |-> role,
                  APIGroup |-> "rbac.authorization.k8s.io"]]

GetDefaultDeveloperRules == "DefaultDeveloperRules"

Role(name, namespace, rules) ==
    [Name |-> name, Namespace |-> namespace, Rules |-> rules]

\* ------------------------------------------------------ reference kubeconfig

\* The operator's credential in a reference kubeconfig (key 0 is no key that
\* CreateUser generates).
AdminAuthInfo(name) ==
    [name |-> name,
     ClientCertificateData |->
         [type |-> "CERTIFICATE", pub |-> 0, cn |-> name, org |-> <<"system:masters">>],
     ClientKeyData |-> [type |-> "RSA PRIVATE KEY", priv |-> 0]]

\* Two clusters, two credentials, two contexts; the current context is the
\* first.
ValidReference ==
    [CurrentContext |-> <<"admin", "@", "k8s-lab">>,
     Contexts |-> {[name |-> <<"admin", "@", "k8s-lab">>, Cluster |-> "k8s-lab",
                    AuthInfo |-> <<"admin">>],
                   [name |-> <<"ops", "@", "staging">>, Cluster |-> "staging",
                    AuthInfo |-> <<"ops">>]},
     AuthInfos |-> {AdminAuthInfo(<<"admin">>), AdminAuthInfo(<<"ops">>)},
     Clusters |-> {[name |-> "k8s-lab", Server |-> "https://k8s-lab:6443",
                    CertificateAuthority |-> "",
                    CertificateAuthorityData |-> "ca-k8s-lab"],
                   [name |-> "staging", Server |-> "https://staging:6443",
                    CertificateAuthority |-> "/etc/staging/ca.crt",
                    CertificateAuthorityData |-> ""]}]

\* The same file with the other context current: its cluster names its CA by
\* file path and carries no CA data.
StagingReference == [ValidReference EXCEPT !.CurrentContext = <<"ops", "@", "staging">>]

NoContextReference == [ValidReference EXCEPT !.CurrentContext = <<>>]

\* The current context names no context of the file.
MissingContextReference ==
    [ValidReference EXCEPT !.CurrentContext = <<"gone", "@", "k8s-lab">>]

\* The current context's cluster is no cluster of the file.
MissingClusterReference ==
    [ValidReference EXCEPT !.Clusters = {c \in @ : c.name # "k8s-lab"}]

ReferenceConfigs ==
    {ValidReference, StagingReference, NoContextReference,
     MissingContextReference, MissingClusterReference}

\* ------------------------------------------------------------------- state

VARIABLES
    fs,              \* registry: username -> its directory under outputDir
    outputDirExists, \* whether outputDir itself exists
    kubeconfig,      \* content of the reference kubeconfig file m.kubeconfig
    csrs,            \* CertificateSigningRequest objects of the cluster
    crbs,            \* ClusterRoleBinding objects
    rbs,             \* RoleBinding objects (all namespaces)
    roles,           \* Role objects (all namespaces)
    nkeys,           \* RSA keys generated so far (the next key is nkeys+1)
    calls,           \* operations started so far
    op,              \* operation in progress or last finished
    pc,              \* its position
    cfg,             \* its argument
    local,           \* CreateUser's local variables
    err,             \* what the operation returned (meaningful at pc = "done")
    log,             \* steps the operation has performed, in order
    faults,          \* failed calls of the operation whose error it swallowed,
                     \* and failed Create calls of RBAC objects
    out,             \* lines the operation printed
    before,          \* Snapshot when the operation began
    parked,          \* a second invocation running at the same time: its op,
                     \* pc, cfg, local, err, log, faults, out and before while
                     \* the other one executes
    configFile,      \* the cluster configuration file config.Load reads
    loaded           \* what config.Load returned

vars ==
    <<fs, outputDirExists, kubeconfig, csrs, crbs, rbs, roles, nkeys, calls,
      op, pc, cfg, local, err, log, faults, out, before, parked, configFile,
      loaded>>

\* What the operations of one invocation of the user commands leave alone.
rest == <<parked, configFile, loaded>>

store == <<csrs, crbs, rbs, roles>>

\* A permission mode is its three octal digits; <<>> where there is no file.
NoDir == [exists |-> FALSE, key |-> <<>>, keyMode |-> <<>>, csr |-> <<>>,
          crt |-> <<>>, kubeconfig |-> <<>>]

EmptyDir == [NoDir EXCEPT !.exists = TRUE]

NoLocal == [privateKey |-> <<>>, csrPEM |-> <<>>, certPEM |-> <<>>, polls |-> 0]

\* The registry and the cluster objects; "after" is set when an operation
\* begins (see Begin).
Snapshot ==
    [fs |-> fs, csrs |-> csrs, crbs |-> crbs, rbs |-> rbs, roles |-> roles,
     after |-> "other"]

\* An invocation that has not begun; the registry and the cluster are empty.
NotStarted ==
    [op |-> "none", pc |-> "idle", cfg |-> NoConfig, local |-> NoLocal,
     err |-> "nil", log |-> <<>>, faults |-> {}, out |-> {},
     before |-> [fs |-> [u \in Usernames |-> NoDir], csrs |-> {}, crbs |-> {},
                 rbs |-> {}, roles |-> {}, after |-> "other"]]

\* No configuration file is looked at by the user commands.
NoDocument == [keys |-> {}, values |-> <<>>]

NoFile == [exists |-> FALSE, wellFormed |-> FALSE, document |-> NoDocument]

\* Nothing of package config has been called: no Config, no error (an error is
\* its messages, <<>> is nil), no node.
NotLoaded == [call |-> "none", cfg |-> <<>>, err |-> <<>>, node |-> <<>>]

InitUser ==
    /\ fs = [u \in Usernames |-> NoDir]
    /\ outputDirExists = FALSE
    /\ kubeconfig \in ReferenceConfigs
    /\ csrs = {}
    /\ crbs = {}
    /\ rbs = {}
    /\ roles = {}
    /\ nkeys = 0
    /\ calls = 0
    /\ op = "none"
    /\ pc = "idle"
    /\ cfg = NoConfig
    /\ local = NoLocal
    /\ err = "nil"
    /\ log = <<>>
    /\ faults = {}
    /\ out = {}
    /\ before = Snapshot
    /\ parked = NotStarted

Init ==
    /\ InitUser
    /\ configFile = NoFile
    /\ loaded = NotLoaded

\* ---------------------------------------------------------- API semantics

Named(objs, name) == {o \in objs : o.Name = name}

\* Lookup in a kubeconfig map (entries keyed by name).
Lookup(entries, name) == {e \in entries : e.name = name}

NamedIn(objs, name, namespace) ==
    {o \in objs : o.Name = name /\ o.Namespace = namespace}

\* Answers the API server can give to Create: "already exists" when an object
\* of that name is there, "created" when not, or any other failure.
CreateAnswers(present) ==
    IF present THEN {"already exists", "error"} ELSE {"created", "error"}

\* Faulty variant of CreateResult: every failure of Create taken for success.
CreateResult_ignoresErrors(answer, message) == "nil"

\* Faulty variant of CreateResult: "already exists" returned as an error like any other.
CreateResult_strict(answer, message) ==
    IF answer = "created" THEN "nil" ELSE message

\* What createClusterRoleBinding, createRoleBinding and CreateRole return for
\* an answer of the API server.
CreateResult(answer, message) ==
    IF answer = "created" THEN "nil"
    ELSE IF answer = "already exists" THEN "nil"
    ELSE message

\* ------------------------------------------------------- operation plumbing

\* A call whose error the operation swallowed.
Fault(call, name, namespace) ==
    [call |-> call, name |-> name, namespace |-> namespace]

\* A line of output: a message, or a row of ListUsers' table.
Line(text) == [text |-> text, username |-> <<>>, kubeconfig |-> <<>>, groups |-> <<>>]

Idle == pc \in {"idle", "done"}

\* The errors of CreateUser's two binding steps.
BindingErrors ==
    {"failed to create ClusterRoleBinding", "failed to create RoleBinding"}

\* How an operation beginning with argument c relates to the one that ran last:
\* that one was a CreateUser with the same UserConfig, or for the same
\* username, which failed at a binding step; or anything else.
After(c) ==
    IF op = "create" /\ pc = "done" /\ err \in BindingErrors
    THEN IF cfg = c THEN "failed binding, same config"
         ELSE IF cfg.Username = c.Username THEN "failed binding, same username"
         ELSE "other"
    ELSE "other"

Begin(o, c) ==
    /\ Idle
    /\ calls < MaxCalls
    /\ calls' = calls + 1
    /\ op' = o
    /\ cfg' = c
    /\ before' = [Snapshot EXCEPT !.after = After(c)]
    /\ UNCHANGED rest

Step(s, next, l) ==
    /\ log' = Append(log, s)
    /\ pc' = next
    /\ local' = l
    /\ err' = "nil"

Return(s, e) ==
    /\ log' = Append(log, s)
    /\ pc' = "done"
    /\ local' = NoLocal
    /\ err' = e

Running(o, at) == op = o /\ pc = at

\* ---------------------------------------------------------------- create

\* cmd/user.go runUserCreate: flag validation, the no-permission warning and
\* NewManager, then Manager.CreateUser.
runUserCreate ==
    \E c \in UserConfigs, managerOk \in BOOLEAN :
        /\ Begin("create", c)
        /\ log' = <<>>
        /\ local' = NoLocal
        /\ faults' = {}
        /\ UNCHANGED <<fs, outputDirExists, kubeconfig, store, nkeys>>
        /\ IF c.Role # <<>> /\ c.Namespace = ""
           THEN /\ pc' = "done"
                /\ err' = "--namespace is required when using --role"
                /\ out' = {}
           ELSE /\ out' = IF c.ClusterRole = <<>> /\ c.Role = <<>>
                          THEN {Line("Warning: No --cluster-role or --role specified.")}
                          ELSE {}
                /\ IF managerOk
                   THEN pc' = "mkdir" /\ err' = "nil"
                   ELSE pc' = "done" /\ err' = "failed to create user manager"

\* Manager.CreateUser called with any UserConfig.
CreateUser ==
    \E c \in UserConfigs :
        /\ Begin("create", c)
        /\ log' = <<>>
        /\ local' = NoLocal
        /\ faults' = {}
        /\ out' = {}
        /\ pc' = "mkdir"
        /\ err' = "nil"
        /\ UNCHANGED <<fs, outputDirExists, kubeconfig, store, nkeys>>

\* os.MkdirAll(userDir, 0750)
CreateUser_mkdir ==
    /\ Running("create", "mkdir")
    /\ \E ok \in BOOLEAN :
        IF ok
        THEN /\ fs' = [fs EXCEPT ![cfg.Username].exists = TRUE]
             /\ outputDirExists' = TRUE
             /\ Step("mkdir", "genkey", local)
        ELSE /\ Return("mkdir", "failed to create user directory")
             /\ UNCHANGED <<fs, outputDirExists>>
    /\ UNCHANGED <<kubeconfig, store, nkeys, calls, op, cfg, faults, out, before, rest>>

\* rsa.GenerateKey(rand.Reader, 2048): a key never generated before.
CreateUser_genkey ==
    /\ Running("create", "genkey")
    /\ \E ok \in BOOLEAN :
        IF ok
        THEN /\ nkeys' = nkeys + 1
             /\ Step("genkey", "savekey", [local EXCEPT !.privateKey = <<nkeys + 1>>])
        ELSE /\ Return("genkey", "failed to generate private key")
             /\ UNCHANGED nkeys
    /\ UNCHANGED <<fs, outputDirExists, kubeconfig, store, calls, op, cfg, faults,
                   out, before, rest>>

\* The file savePrivateKey writes for a key.
savePrivateKey(key) == PrivateKeyPEM(key)

\* Faulty variant of WriteFileMode: the key file is created with the mode of the
\* CSR and certificate files.
WriteFileMode_worldReadable(current, perm) ==
    IF current = <<>> THEN <<6, 4, 4>> ELSE current

\* The mode of a file after os.WriteFile(path, data, perm): perm when the call
\* creates the file, the file's own mode when it is there already.
WriteFileMode(current, perm) == IF current = <<>> THEN perm ELSE current

CreateUser_savekey ==
    /\ Running("create", "savekey")
    /\ \E ok \in BOOLEAN :
        IF ok
        THEN /\ fs' = [fs EXCEPT ![cfg.Username].key =
                            <<savePrivateKey(local.privateKey[1])>>,
                                 ![cfg.Username].keyMode =
                            WriteFileMode(@, <<6, 0, 0>>)]
             /\ Step("savekey", "createcsr", local)
        ELSE /\ Return("savekey", "failed to save private key")
             /\ UNCHANGED fs
    /\ UNCHANGED <<outputDirExists, kubeconfig, store, nkeys, calls, op, cfg,
                   faults, out, before, rest>>

CreateUser_createcsr ==
    /\ Running("create", "createcsr")
    /\ \E ok \in BOOLEAN :
        IF ok
        THEN Step("createcsr", "savecsr",
                  [local EXCEPT !.csrPEM =
                      <<createCSR(local.privateKey[1], cfg.Username, cfg.Groups)>>])
        ELSE Return("createcsr", "failed to create CSR")
    /\ UNCHANGED <<fs, outputDirExists, kubeconfig, store, nkeys, calls, op, cfg,
                   faults, out, before, rest>>

\* Faulty variant of CreateUser_savecsr: the CSR written to kubeconfigPath.
CreateUser_savecsr_wrongPath ==
    /\ Running("create", "savecsr")
    /\ \E ok \in BOOLEAN :
        IF ok
        THEN /\ fs' = [fs EXCEPT ![cfg.Username].kubeconfig = local.csrPEM]
             /\ Step("savecsr", "submit", local)
        ELSE /\ Return("savecsr", "failed to save CSR")
             /\ UNCHANGED fs
    /\ UNCHANGED <<outputDirExists, kubeconfig, store, nkeys, calls, op, cfg,
                   faults, out, before, rest>>

\* os.WriteFile(csrPath, csrPEM, 0644)
CreateUser_savecsr ==
    /\ Running("create", "savecsr")
    /\ \E ok \in BOOLEAN :
        IF ok
        THEN /\ fs' = [fs EXCEPT ![cfg.Username].csr = local.csrPEM]
             /\ Step("savecsr", "submit", local)
        ELSE /\ Return("savecsr", "failed to save CSR")
             /\ UNCHANGED fs
    /\ UNCHANGED <<outputDirExists, kubeconfig, store, nkeys, calls, op, cfg,
                   faults, out, before, rest>>

\* The object submitCSR creates.
SigningRequest(name, csrPEM, expirationDays) ==
    [Name |-> name,
     Request |-> csrPEM,
     SignerName |-> "kubernetes.io/kube-apiserver-client",
     ExpirationSeconds |-> ExpirationSeconds(expirationDays),
     Usages |-> <<"client auth">>,
     Conditions |-> <<>>,
     Certificate |-> <<>>]

\* Faulty variant of CreateUser_submit: a request of that name is given the
\* new CSR and otherwise kept.
CreateUser_submit_keepsStale ==
    /\ Running("create", "submit")
    /\ LET name == CsrName(cfg.Username) IN
       \E deleteOk \in BOOLEAN, createOk \in BOOLEAN :
        LET left == IF deleteOk THEN csrs \ Named(csrs, name) ELSE csrs
            answer == IF createOk THEN CHOOSE a \in CreateAnswers(Named(left, name) # {}) :
                                           a # "error"
                      ELSE "error"
        IN  /\ faults' = faults
                    \cup (IF ~deleteOk /\ Named(csrs, name) # {}
                          THEN {Fault("delete csr", name, "")} ELSE {})
                    \cup (IF ~createOk THEN {Fault("create csr", name, "")} ELSE {})
            /\ IF answer = "created"
               THEN /\ csrs' = left \cup
                          IF Named(csrs, name) = {}
                          THEN {SigningRequest(name, local.csrPEM[1], cfg.Expiration)}
                          ELSE {[c EXCEPT !.Request = local.csrPEM[1]] :
                                   c \in Named(csrs, name)}
                    /\ Step("submit", "approve", local)
               ELSE /\ csrs' = left
                    /\ Return("submit", "failed to submit CSR")
    /\ UNCHANGED <<fs, outputDirExists, kubeconfig, crbs, rbs, roles, nkeys, calls,
                   op, cfg, out, before, rest>>

\* Faulty variant of CreateUser_submit: the error of Create is not returned.
CreateUser_submit_ignoresError ==
    /\ Running("create", "submit")
    /\ LET name == CsrName(cfg.Username) IN
       \E deleteOk \in BOOLEAN, createOk \in BOOLEAN :
        LET left == IF deleteOk THEN csrs \ Named(csrs, name) ELSE csrs
            answer == IF createOk THEN CHOOSE a \in CreateAnswers(Named(left, name) # {}) :
                                           a # "error"
                      ELSE "error"
        IN  /\ faults' = faults
                    \cup (IF ~deleteOk /\ Named(csrs, name) # {}
                          THEN {Fault("delete csr", name, "")} ELSE {})
                    \cup (IF ~createOk THEN {Fault("create csr", name, "")} ELSE {})
            /\ IF answer = "created"
               THEN /\ csrs' = left \cup
                          {SigningRequest(name, local.csrPEM[1], cfg.Expiration)}
                    /\ Step("submit", "approve", local)
               ELSE /\ csrs' = left
                    /\ Step("submit", "approve", local)
    /\ UNCHANGED <<fs, outputDirExists, kubeconfig, crbs, rbs, roles, nkeys, calls,
                   op, cfg, out, before, rest>>

\* submitCSR: delete any request of that name (error ignored), then create.
CreateUser_submit ==
    /\ Running("create", "submit")
    /\ LET name == CsrName(cfg.Username) IN
       \E deleteOk \in BOOLEAN, createOk \in BOOLEAN :
        LET left == IF deleteOk THEN csrs \ Named(csrs, name) ELSE csrs
            answer == IF createOk THEN CHOOSE a \in CreateAnswers(Named(left, name) # {}) :
                                           a # "error"
                      ELSE "error"
        IN  /\ faults' = faults
                    \cup (IF ~deleteOk /\ Named(csrs, name) # {}
                          THEN {Fault("delete csr", name, "")} ELSE {})
                    \cup (IF ~createOk THEN {Fault("create csr", name, "")} ELSE {})
            /\ IF answer = "created"
               THEN /\ csrs' = left \cup
                          {SigningRequest(name, local.csrPEM[1], cfg.Expiration)}
                    /\ Step("submit", "approve", local)
               ELSE /\ csrs' = left
                    /\ Return("submit", "failed to submit CSR")
    /\ UNCHANGED <<fs, outputDirExists, kubeconfig, crbs, rbs, roles, nkeys, calls,
                   op, cfg, out, before, rest>>

Approved(csr) == \E i \in 1..Len(csr.Conditions) : csr.Conditions[i] = "Approved"

\* Faulty variant of CreateUser_approve: after the approval the certificate is taken
\* from the request at once, without the wait.
CreateUser_approve_skipsWait ==
    /\ Running("create", "approve")
    /\ LET name == CsrName(cfg.Username) IN
       \E getOk \in BOOLEAN, updateOk \in BOOLEAN :
        IF ~getOk \/ Named(csrs, name) = {}
        THEN /\ Return("approve", "failed to get CSR")
             /\ UNCHANGED csrs
        ELSE IF ~updateOk
        THEN /\ Return("approve", "failed to approve CSR")
             /\ UNCHANGED csrs
        ELSE /\ csrs' = (csrs \ Named(csrs, name)) \cup
                    {[c EXCEPT !.Conditions = Append(@, "Approved")] :
                        c \in Named(csrs, name)}
             /\ Step("approve", "savecert",
                     [local EXCEPT !.certPEM =
                         (CHOOSE c \in Named(csrs, name) : TRUE).Certificate])
    /\ UNCHANGED <<fs, outputDirExists, kubeconfig, crbs, rbs, roles, nkeys, calls,
                   op, cfg, faults, out, before, rest>>

\* approveCSR: Get, append the Approved condition, UpdateApproval.
CreateUser_approve ==
    /\ Running("create", "approve")
    /\ LET name == CsrName(cfg.Username) IN
       \E getOk \in BOOLEAN, updateOk \in BOOLEAN :
        IF ~getOk \/ Named(csrs, name) = {}
        THEN /\ Return("approve", "failed to get CSR")
             /\ UNCHANGED csrs
        ELSE IF ~updateOk
        THEN /\ Return("approve", "failed to approve CSR")
             /\ UNCHANGED csrs
        ELSE /\ csrs' = (csrs \ Named(csrs, name)) \cup
                    {[c EXCEPT !.Conditions = Append(@, "Approved")] :
                        c \in Named(csrs, name)}
             /\ Step("approve", "wait", local)
    /\ UNCHANGED <<fs, outputDirExists, kubeconfig, crbs, rbs, roles, nkeys, calls,
                   op, cfg, faults, out, before, rest>>

\* The cluster's signer, running on its own: it issues a certificate for an
\* approved request that has none.
SignerIssues ==
    \E c \in csrs :
        /\ Approved(c)
        /\ c.Certificate = <<>>
        /\ csrs' = (csrs \ {c}) \cup
               {[c EXCEPT !.Certificate = <<SignedCertificate(c.Request)>>]}
        /\ UNCHANGED <<fs, outputDirExists, kubeconfig, crbs, rbs, roles, nkeys,
                       calls, op, pc, cfg, local, err, log, faults, out, before, rest>>

\* The log with s appended unless it is the last entry already (a loop's
\* iterations are one entry).
Logged(s) == IF log # <<>> /\ log[Len(log)] = s THEN log ELSE Append(log, s)

\* Faulty variant of CreateUser_wait: the loop has no deadline.
CreateUser_wait_noDeadline ==
    /\ Running("create", "wait")
    /\ LET name == CsrName(cfg.Username) IN
       \E deadlinePassed \in BOOLEAN, getOk \in BOOLEAN :
        IF FALSE
        THEN /\ pc' = "done"
             /\ err' = "timeout waiting for certificate"
             /\ local' = NoLocal
        ELSE IF ~getOk \/ Named(csrs, name) = {}
        THEN /\ pc' = "done"
             /\ err' = "failed to get CSR"
             /\ local' = NoLocal
        ELSE LET csr == CHOOSE c \in Named(csrs, name) : TRUE IN
             IF Len(csr.Certificate) > 0
             THEN /\ pc' = "savecert"
                  /\ err' = "nil"
                  /\ local' = [local EXCEPT !.certPEM = csr.Certificate]
             ELSE /\ pc' = "wait"
                  /\ err' = "nil"
                  /\ local' = [local EXCEPT !.polls = @ + 1]
    /\ log' = Logged("wait")
    /\ UNCHANGED <<fs, outputDirExists, kubeconfig, store, nkeys, calls, op, cfg,
                   faults, out, before, rest>>

\* waitForCertificate, one evaluation of the loop condition and one iteration:
\* the deadline has passed (at the latest after PollBudget polls, and not
\* before the first), or Get fails, or Get shows a certificate, or it sleeps.
CreateUser_wait ==
    /\ Running("create", "wait")
    /\ LET name == CsrName(cfg.Username) IN
       \E deadlinePassed \in BOOLEAN, getOk \in BOOLEAN :
        IF local.polls >= PollBudget \/ (deadlinePassed /\ local.polls > 0)
        THEN /\ pc' = "done"
             /\ err' = "timeout waiting for certificate"
             /\ local' = NoLocal
        ELSE IF ~getOk \/ Named(csrs, name) = {}
        THEN /\ pc' = "done"
             /\ err' = "failed to get CSR"
             /\ local' = NoLocal
        ELSE LET csr == CHOOSE c \in Named(csrs, name) : TRUE IN
             IF Len(csr.Certificate) > 0
             THEN /\ pc' = "savecert"
                  /\ err' = "nil"
                  /\ local' = [local EXCEPT !.certPEM = csr.Certificate]
             ELSE /\ pc' = "wait"
                  /\ err' = "nil"
                  /\ local' = [local EXCEPT !.polls = @ + 1]
    /\ log' = Logged("wait")
    /\ UNCHANGED <<fs, outputDirExists, kubeconfig, store, nkeys, calls, op, cfg,
                   faults, out, before, rest>>

\* Faulty variant of CreateUser_savecert: a failed write removes the key file.
CreateUser_savecert_rollsBack ==
    /\ Running("create", "savecert")
    /\ \E ok \in BOOLEAN :
        IF ok
        THEN /\ fs' = [fs EXCEPT ![cfg.Username].crt = local.certPEM]
             /\ Step("savecert", "kubeconfig", local)
        ELSE /\ Return("savecert", "failed to save certificate")
             /\ fs' = [fs EXCEPT ![cfg.Username].key = <<>>]
    /\ UNCHANGED <<outputDirExists, kubeconfig, store, nkeys, calls, op, cfg,
                   faults, out, before, rest>>

\* os.WriteFile(certPath, certPEM, 0644)
CreateUser_savecert ==
    /\ Running("create", "savecert")
    /\ \E ok \in BOOLEAN :
        IF ok
        THEN /\ fs' = [fs EXCEPT ![cfg.Username].crt = local.certPEM]
             /\ Step("savecert", "kubeconfig", local)
        ELSE /\ Return("savecert", "failed to save certificate")
             /\ UNCHANGED fs
    /\ UNCHANGED <<outputDirExists, kubeconfig, store, nkeys, calls, op, cfg,
                   faults, out, before, rest>>

\* createKubeconfig's checks of the reference kubeconfig: the error, or "nil".
ReferenceError(config) ==
    IF config.CurrentContext = <<>> THEN "no current context in kubeconfig"
    ELSE IF Lookup(config.Contexts, config.CurrentContext) = {}
    THEN "context not found"
    ELSE LET contextConfig == CHOOSE c \in Lookup(config.Contexts, config.CurrentContext) : TRUE
         IN  IF Lookup(config.Clusters, contextConfig.Cluster) = {}
             THEN "cluster not found"
             ELSE "nil"

\* Faulty variant of NewKubeconfig: the new entries are added to a copy of the
\* reference instead of to an empty Config.
NewKubeconfig_copiesReference(config, username, keyData, certData) ==
    LET contextConfig == CHOOSE c \in Lookup(config.Contexts, config.CurrentContext) : TRUE
        clusterName == contextConfig.Cluster
        contextName == ContextName(username, clusterName)
    IN  [Clusters |-> config.Clusters,
         AuthInfos |-> config.AuthInfos \cup
                        {[name |-> username, ClientCertificateData |-> certData,
                          ClientKeyData |-> keyData]},
         Contexts |-> config.Contexts \cup
                        {[name |-> contextName, Cluster |-> clusterName,
                          AuthInfo |-> username]},
         CurrentContext |-> contextName]

\* The kubeconfig createKubeconfig builds from a usable reference.
NewKubeconfig(config, username, keyData, certData) ==
    LET contextConfig == CHOOSE c \in Lookup(config.Contexts, config.CurrentContext) : TRUE
        clusterConfig == CHOOSE c \in Lookup(config.Clusters, contextConfig.Cluster) : TRUE
        clusterName == contextConfig.Cluster
        contextName == ContextName(username, clusterName)
    IN  [Clusters |-> {[name |-> clusterName, Server |-> clusterConfig.Server,
                        CertificateAuthority |-> "",
                        CertificateAuthorityData |->
                            clusterConfig.CertificateAuthorityData]},
         AuthInfos |-> {[name |-> username, ClientCertificateData |-> certData,
                         ClientKeyData |-> keyData]},
         Contexts |-> {[name |-> contextName, Cluster |-> clusterName,
                        AuthInfo |-> username]},
         CurrentContext |-> contextName]

\* Faulty variant of CreateUser_kubeconfig: the output file is opened for
\* writing before the reference is checked, and left empty when the check fails.
CreateUser_kubeconfig_truncates ==
    /\ Running("create", "kubeconfig")
    /\ LET dir == fs[cfg.Username] IN
       \E loadOk \in BOOLEAN, readOk \in BOOLEAN, writeOk \in BOOLEAN :
        IF ~loadOk
        THEN /\ Return("kubeconfig", "failed to load kubeconfig")
             /\ UNCHANGED fs
        ELSE IF ReferenceError(kubeconfig) # "nil"
        THEN /\ Return("kubeconfig", ReferenceError(kubeconfig))
             /\ fs' = [fs EXCEPT ![cfg.Username].kubeconfig = <<>>]
        ELSE IF ~readOk \/ dir.key = <<>> \/ dir.crt = <<>>
        THEN /\ Return("kubeconfig", "failed to read key or cert")
             /\ UNCHANGED fs
        ELSE IF ~writeOk
        THEN /\ Return("kubeconfig", "failed to write kubeconfig")
             /\ UNCHANGED fs
        ELSE /\ fs' = [fs EXCEPT ![cfg.Username].kubeconfig =
                        <<NewKubeconfig(kubeconfig, cfg.Username, dir.key[1],
                                        dir.crt[1])>>]
             /\ Step("kubeconfig", "bindcluster", local)
    /\ UNCHANGED <<outputDirExists, kubeconfig, store, nkeys, calls, op, cfg,
                   faults, out, before, rest>>

\* createKubeconfig: load the reference, check it, read key and certificate
\* back from the registry, write the new kubeconfig.
CreateUser_kubeconfig ==
    /\ Running("create", "kubeconfig")
    /\ LET dir == fs[cfg.Username] IN
       \E loadOk \in BOOLEAN, readOk \in BOOLEAN, writeOk \in BOOLEAN :
        IF ~loadOk
        THEN /\ Return("kubeconfig", "failed to load kubeconfig")
             /\ UNCHANGED fs
        ELSE IF ReferenceError(kubeconfig) # "nil"
        THEN /\ Return("kubeconfig", ReferenceError(kubeconfig))
             /\ UNCHANGED fs
        ELSE IF ~readOk \/ dir.key = <<>> \/ dir.crt = <<>>
        THEN /\ Return("kubeconfig", "failed to read key or cert")
             /\ UNCHANGED fs
        ELSE IF ~writeOk
        THEN /\ Return("kubeconfig", "failed to write kubeconfig")
             /\ UNCHANGED fs
        ELSE /\ fs' = [fs EXCEPT ![cfg.Username].kubeconfig =
                        <<NewKubeconfig(kubeconfig, cfg.Username, dir.key[1],
                                        dir.crt[1])>>]
             /\ Step("kubeconfig", "bindcluster", local)
    /\ UNCHANGED <<outputDirExists, kubeconfig, store, nkeys, calls, op, cfg,
                   faults, out, before, rest>>

\* Faulty variant of CreateUser_bindcluster: when the ClusterRoleBinding exists
\* already, the role binding is skipped with it.
CreateUser_bindcluster_skipsRest ==
    /\ Running("create", "bindcluster")
    /\ IF cfg.ClusterRole = <<>>
       THEN /\ pc' = "bindrole"
            /\ UNCHANGED <<crbs, log, local, err, out, faults>>
       ELSE LET binding == ClusterRoleBinding(cfg.Username, cfg.Groups, cfg.ClusterRole)
                message == "failed to create ClusterRoleBinding"
            IN  \E answer \in CreateAnswers(Named(crbs, binding.Name) # {}) :
                    /\ crbs' = IF answer = "created" THEN crbs \cup {binding} ELSE crbs
                    /\ faults' = IF answer = "error"
                                 THEN faults \cup {Fault("create clusterrolebinding",
                                                         binding.Name, "")}
                                 ELSE faults
                    /\ out' = IF answer = "already exists"
                              THEN out \cup {Line("ClusterRoleBinding already exists, skipping...")}
                              ELSE out
                    /\ IF CreateResult(answer, message) = "nil"
                       THEN Step("bindcluster",
                                 IF answer = "already exists" THEN "cleanup"
                                 ELSE "bindrole", local)
                       ELSE Return("bindcluster", CreateResult(answer, message))
    /\ UNCHANGED <<fs, outputDirExists, kubeconfig, csrs, rbs, roles, nkeys, calls,
                   op, cfg, before, rest>>

\* createClusterRoleBinding, when ClusterRole is given.
CreateUser_bindcluster ==
    /\ Running("create", "bindcluster")
    /\ IF cfg.ClusterRole = <<>>
       THEN /\ pc' = "bindrole"
            /\ UNCHANGED <<crbs, log, local, err, out, faults>>
       ELSE LET binding == ClusterRoleBinding(cfg.Username, cfg.Groups, cfg.ClusterRole)
                message == "failed to create ClusterRoleBinding"
            IN  \E answer \in CreateAnswers(Named(crbs, binding.Name) # {}) :
                    /\ crbs' = IF answer = "created" THEN crbs \cup {binding} ELSE crbs
                    /\ faults' = IF answer = "error"
                                 THEN faults \cup {Fault("create clusterrolebinding",
                                                         binding.Name, "")}
                                 ELSE faults
                    /\ out' = IF answer = "already exists"
                              THEN out \cup {Line("ClusterRoleBinding already exists, skipping...")}
                              ELSE out
                    /\ IF CreateResult(answer, message) = "nil"
                       THEN Step("bindcluster", "bindrole", local)
                       ELSE Return("bindcluster", CreateResult(answer, message))
    /\ UNCHANGED <<fs, outputDirExists, kubeconfig, csrs, rbs, roles, nkeys, calls,
                   op, cfg, before, rest>>

\* Faulty variant of CreateUser_bindrole: the role name is not checked.
CreateUser_bindrole_anyRole ==
    /\ Running("create", "bindrole")
    /\ IF ~(cfg.Namespace # "")
       THEN /\ pc' = "cleanup"
            /\ UNCHANGED <<rbs, log, local, err, out, faults>>
       ELSE LET binding == RoleBinding(cfg.Username, cfg.Groups, cfg.Role, cfg.Namespace)
                message == "failed to create RoleBinding"
                present == NamedIn(rbs, binding.Name, cfg.Namespace) # {}
            IN  \E answer \in CreateAnswers(present) :
                    /\ rbs' = IF answer = "created" THEN rbs \cup {binding} ELSE rbs
                    /\ faults' = IF answer = "error"
                                 THEN faults \cup {Fault("create rolebinding",
                                                         binding.Name, cfg.Namespace)}
                                 ELSE faults
                    /\ out' = IF answer = "already exists"
                              THEN out \cup {Line("RoleBinding already exists, skipping...")}
                              ELSE out
                    /\ IF CreateResult(answer, message) = "nil"
                       THEN Step("bindrole", "cleanup", local)
                       ELSE Return("bindrole", CreateResult(answer, message))
    /\ UNCHANGED <<fs, outputDirExists, kubeconfig, csrs, crbs, roles, nkeys, calls,
                   op, cfg, before, rest>>

\* createRoleBinding, when Role and Namespace are both given.
CreateUser_bindrole ==
    /\ Running("create", "bindrole")
    /\ IF ~(cfg.Role # <<>> /\ cfg.Namespace # "")
       THEN /\ pc' = "cleanup"
            /\ UNCHANGED <<rbs, log, local, err, out, faults>>
       ELSE LET binding == RoleBinding(cfg.Username, cfg.Groups, cfg.Role, cfg.Namespace)
                message == "failed to create RoleBinding"
                present == NamedIn(rbs, binding.Name, cfg.Namespace) # {}
            IN  \E answer \in CreateAnswers(present) :
                    /\ rbs' = IF answer = "created" THEN rbs \cup {binding} ELSE rbs
                    /\ faults' = IF answer = "error"
                                 THEN faults \cup {Fault("create rolebinding",
                                                         binding.Name, cfg.Namespace)}
                                 ELSE faults
                    /\ out' = IF answer = "already exists"
                              THEN out \cup {Line("RoleBinding already exists, skipping...")}
                              ELSE out
                    /\ IF CreateResult(answer, message) = "nil"
                       THEN Step("bindrole", "cleanup", local)
                       ELSE Return("bindrole", CreateResult(answer, message))
    /\ UNCHANGED <<fs, outputDirExists, kubeconfig, csrs, crbs, roles, nkeys, calls,
                   op, cfg, before, rest>>

\* The end of CreateUser: delete the signing request (error ignored), print the
\* success message and the usage, return nil.
CreateUser_cleanup ==
    /\ Running("create", "cleanup")
    /\ LET name == CsrName(cfg.Username) IN
       \E deleteOk \in BOOLEAN :
        /\ csrs' = IF deleteOk THEN csrs \ Named(csrs, name) ELSE csrs
        /\ faults' = IF ~deleteOk /\ Named(csrs, name) # {}
                     THEN faults \cup {Fault("delete csr", name, "")}
                     ELSE faults
    /\ log' = log \o <<"cleanup", "usage">>
    /\ out' = out \cup {Line("User created successfully!"), Line("Usage Instructions")}
    /\ pc' = "done"
    /\ err' = "nil"
    /\ local' = NoLocal
    /\ UNCHANGED <<fs, outputDirExists, kubeconfig, crbs, rbs, roles, nkeys, calls,
                   op, cfg, before, rest>>

\* ---------------------------------------------------------------- delete

DeleteUser ==
    \E username \in Usernames :
        /\ Begin("delete", [NoConfig EXCEPT !.Username = username])
        /\ log' = <<>>
        /\ local' = NoLocal
        /\ faults' = {}
        /\ out' = {}
        /\ pc' = "del_crb"
        /\ err' = "nil"
        /\ UNCHANGED <<fs, outputDirExists, kubeconfig, store, nkeys>>

\* Faulty variant of DeleteUser_crb: a failed list is returned to the caller.
DeleteUser_crb_aborts ==
    /\ Running("delete", "del_crb")
    /\ LET matching == {b \in crbs : HasUserPrefix(b.Name, cfg.Username)} IN
       \E listOk \in BOOLEAN, failing \in SUBSET matching :
        /\ ~listOk => failing = {}
        /\ crbs' = IF listOk THEN crbs \ (matching \ failing) ELSE crbs
        /\ faults' = faults
              \cup (IF listOk THEN {} ELSE {Fault("list clusterrolebindings", <<>>, "")})
              \cup {Fault("delete clusterrolebinding", b.Name, "") : b \in failing}
        /\ IF listOk THEN Step("del_crb", "del_rb", local)
           ELSE Return("del_crb", "failed to list ClusterRoleBindings")
    /\ UNCHANGED <<fs, outputDirExists, kubeconfig, csrs, rbs, roles, nkeys, calls,
                   op, cfg, out, before, rest>>

\* List the ClusterRoleBindings and delete those named username+"-"...
DeleteUser_crb ==
    /\ Running("delete", "del_crb")
    /\ LET matching == {b \in crbs : HasUserPrefix(b.Name, cfg.Username)} IN
       \E listOk \in BOOLEAN, failing \in SUBSET matching :
        /\ ~listOk => failing = {}
        /\ crbs' = IF listOk THEN crbs \ (matching \ failing) ELSE crbs
        /\ faults' = faults
              \cup (IF listOk THEN {} ELSE {Fault("list clusterrolebindings", <<>>, "")})
              \cup {Fault("delete clusterrolebinding", b.Name, "") : b \in failing}
    /\ Step("del_crb", "del_rb", local)
    /\ UNCHANGED <<fs, outputDirExists, kubeconfig, csrs, rbs, roles, nkeys, calls,
                   op, cfg, out, before, rest>>

\* List the namespaces; in each, list the RoleBindings (a failed list gives no
\* items) and delete those named username+"-"...
DeleteUser_rb ==
    /\ Running("delete", "del_rb")
    /\ \E namespacesOk \in BOOLEAN, unlisted \in SUBSET Namespaces :
        LET matching == {b \in rbs : /\ b.Namespace \in Namespaces \ unlisted
                                     /\ HasUserPrefix(b.Name, cfg.Username)}
        IN  \E failing \in SUBSET matching :
            /\ ~namespacesOk => (unlisted = {} /\ failing = {})
            /\ rbs' = IF namespacesOk THEN rbs \ (matching \ failing) ELSE rbs
            /\ faults' = faults
                  \cup (IF namespacesOk THEN {} ELSE {Fault("list namespaces", <<>>, "")})
                  \cup {Fault("list rolebindings", <<>>, ns) : ns \in unlisted}
                  \cup {Fault("delete rolebinding", b.Name, b.Namespace) : b \in failing}
    /\ Step("del_rb", "del_csr", local)
    /\ UNCHANGED <<fs, outputDirExists, kubeconfig, csrs, crbs, roles, nkeys, calls,
                   op, cfg, out, before, rest>>

\* Delete the signing request username+"-csr" (error ignored).
DeleteUser_csr ==
    /\ Running("delete", "del_csr")
    /\ LET name == CsrName(cfg.Username) IN
       \E deleteOk \in BOOLEAN :
        /\ csrs' = IF deleteOk THEN csrs \ Named(csrs, name) ELSE csrs
        /\ faults' = IF ~deleteOk /\ Named(csrs, name) # {}
                     THEN faults \cup {Fault("delete csr", name, "")}
                     ELSE faults
    /\ Step("del_csr", "del_files", local)
    /\ UNCHANGED <<fs, outputDirExists, kubeconfig, crbs, rbs, roles, nkeys, calls,
                   op, cfg, out, before, rest>>

\* Remove the user's directory if os.Stat finds it (error ignored), print the
\* success message, return nil.
DeleteUser_files ==
    /\ Running("delete", "del_files")
    /\ \E statOk \in BOOLEAN, removeOk \in BOOLEAN :
        LET found == statOk /\ fs[cfg.Username].exists IN
        /\ fs' = IF found /\ removeOk THEN [fs EXCEPT ![cfg.Username] = NoDir] ELSE fs
        /\ faults' = IF fs[cfg.Username].exists /\ ~(statOk /\ removeOk)
                     THEN faults \cup {Fault("remove directory", cfg.Username, "")}
                     ELSE faults
    /\ out' = out \cup {Line("User deleted successfully!")}
    /\ Return("del_files", "nil")
    /\ UNCHANGED <<outputDirExists, kubeconfig, store, nkeys, calls, op, cfg, before, rest>>

\* ------------------------------------------------------------------ list

\* getGroupsFromCert: the organizations of the certificate file joined by ",",
\* or "-" when it cannot be read or names none.
getGroupsFromCert(crt) ==
    IF crt = <<>> THEN <<"-">>
    ELSE IF Len(crt[1].org) > 0 THEN crt[1].org
    ELSE <<"-">>

KubeconfigPath(username) == <<"outputDir", username, username \o <<".kubeconfig">>>>

\* Faulty variant of HasKubeconfig: os.Stat of username+".bundle", which nothing writes.
HasKubeconfig_bundleName(username) == FALSE

\* os.Stat(kubeconfigPath) finds the file.
HasKubeconfig(username) == fs[username].kubeconfig # <<>>

Row(username) ==
    [text |-> "row", username |-> username, kubeconfig |-> KubeconfigPath(username),
     groups |-> getGroupsFromCert(fs[username].crt)]

\* What ListUsers prints and returns, given whether os.ReadDir works.
ListUsersResult(readOk) ==
    LET entries == {u \in Usernames : fs[u].exists} IN
    IF ~outputDirExists \/ (readOk /\ entries = {})
    THEN [out |-> {Line("No users found.")}, err |-> "nil"]
    ELSE IF ~readOk
    THEN [out |-> {}, err |-> "failed to read output directory"]
    ELSE [out |-> {Line("USERNAME KUBECONFIG GROUPS")}
                    \cup {Row(u) : u \in {e \in entries : HasKubeconfig(e)}},
          err |-> "nil"]

ListUsers ==
    /\ Begin("list", NoConfig)
    /\ \E readOk \in BOOLEAN :
        /\ out' = ListUsersResult(readOk).out
        /\ err' = ListUsersResult(readOk).err
    /\ log' = <<"list">>
    /\ faults' = {}
    /\ pc' = "done"
    /\ local' = NoLocal
    /\ UNCHANGED <<fs, outputDirExists, kubeconfig, store, nkeys>>

\* ------------------------------------------------------------ create-role

\* cmd/user.go runUserCreateRole -> Manager.CreateRole with the default rules.
CreateRole ==
    \E name \in RoleArgs \ {<<>>}, namespace \in Namespaces :
        /\ Begin("createrole", [NoConfig EXCEPT !.Role = name, !.Namespace = namespace])
        /\ LET role == Role(name, namespace, GetDefaultDeveloperRules)
               message == "failed to create Role"
           IN  \E answer \in CreateAnswers(NamedIn(roles, name, namespace) # {}) :
                /\ roles' = IF answer = "created" THEN roles \cup {role} ELSE roles
                /\ out' = IF answer = "created" THEN {Line("Role created")}
                          ELSE IF answer = "already exists" THEN {Line("Role already exists")}
                          ELSE {}
                /\ faults' = IF answer = "error"
                             THEN {Fault("create role", name, namespace)}
                             ELSE {}
                /\ err' = CreateResult(answer, message)
        /\ log' = <<"createrole">>
        /\ pc' = "done"
        /\ local' = NoLocal
        /\ UNCHANGED <<fs, outputDirExists, kubeconfig, csrs, crbs, rbs, nkeys>>

\* ------------------------------------------------------------ environment

\* Between two operations the operator unsets the current context of the
\* reference kubeconfig (the file is loaded anew by every createKubeconfig).
SwitchReference ==
    /\ Idle
    /\ kubeconfig = ValidReference
    /\ kubeconfig' = NoContextReference
    /\ op' = "switch"
    /\ pc' = "done"
    /\ cfg' = NoConfig
    /\ local' = NoLocal
    /\ err' = "nil"
    /\ log' = <<>>
    /\ faults' = {}
    /\ out' = {}
    /\ before' = Snapshot
    /\ UNCHANGED <<fs, outputDirExists, store, nkeys, calls, rest>>

\* ------------------------------------------------------------ specification

Next ==
    \/ runUserCreate
    \/ CreateUser
    \/ CreateUser_mkdir
    \/ CreateUser_genkey
    \/ CreateUser_savekey
    \/ CreateUser_createcsr
    \/ CreateUser_savecsr
    \/ CreateUser_submit
    \/ CreateUser_approve
    \/ CreateUser_wait
    \/ CreateUser_savecert
    \/ CreateUser_kubeconfig
    \/ CreateUser_bindcluster
    \/ CreateUser_bindrole
    \/ CreateUser_cleanup
    \/ DeleteUser
    \/ DeleteUser_crb
    \/ DeleteUser_rb
    \/ DeleteUser_csr
    \/ DeleteUser_files
    \/ ListUsers
    \/ CreateRole
    \/ SignerIssues
    \/ SwitchReference

Spec == Init /\ [][Next]_vars

\* CreateUser runs: a call that has started executes its next statement, and
\* the loop of waitForCertificate its next iteration.
FairSpec == Spec /\ WF_vars(CreateUser_wait)

\* ------------------------------------------------- concurrent invocations

\* Two invocations of the tool run at the same time (two processes, each with
\* its own Manager, against one registry and one cluster). The variables op ...
\* before belong to the invocation that executes its next statement; parked
\* holds those of the other one. Nothing orders the statements of the two, so
\* the scheduler may switch between them after every statement.
Context ==
    [op |-> op, pc |-> pc, cfg |-> cfg, local |-> local, err |-> err, log |-> log,
     faults |-> faults, out |-> out, before |-> before]

\* CreateUser as the concurrent invocations call it.
ConcurrentConfigs ==
    {c \in UserConfigs : /\ c.Groups = <<>>
                         /\ c.Namespace = "dev"
                         /\ c.ClusterRole = <<"view">>
                         /\ c.Role = <<"developer">>}

\* Manager.CreateUser called with one of configs.
CreateUserWith(configs) ==
    \E c \in configs :
        /\ Begin("create", c)
        /\ log' = <<>>
        /\ local' = NoLocal
        /\ faults' = {}
        /\ out' = {}
        /\ pc' = "mkdir"
        /\ err' = "nil"
        /\ UNCHANGED <<fs, outputDirExists, kubeconfig, store, nkeys>>

ConcurrentCreateUser == CreateUserWith(ConcurrentConfigs)

\* The other invocation runs on: it has statements left, or has yet to begin.
Yield ==
    /\ calls > 0
    /\ parked.pc # "done"
    /\ parked.pc = "idle" => calls < MaxCalls
    /\ parked' = Context
    /\ op' = parked.op
    /\ pc' = parked.pc
    /\ cfg' = parked.cfg
    /\ local' = parked.local
    /\ err' = parked.err
    /\ log' = parked.log
    /\ faults' = parked.faults
    /\ out' = parked.out
    /\ before' = parked.before
    /\ UNCHANGED <<fs, outputDirExists, kubeconfig, store, nkeys, calls,
                   configFile, loaded>>

ConcurrentInit ==
    /\ Init
    /\ kubeconfig = ValidReference

ConcurrentNext ==
    \/ ConcurrentCreateUser
    \/ CreateUser_mkdir
    \/ CreateUser_genkey
    \/ CreateUser_savekey
    \/ CreateUser_createcsr
    \/ CreateUser_savecsr
    \/ CreateUser_submit
    \/ CreateUser_approve
    \/ CreateUser_wait
    \/ CreateUser_savecert
    \/ CreateUser_kubeconfig
    \/ CreateUser_bindcluster
    \/ CreateUser_bindrole
    \/ CreateUser_cleanup
    \/ DeleteUser
    \/ DeleteUser_crb
    \/ DeleteUser_rb
    \/ DeleteUser_csr
    \/ DeleteUser_files
    \/ SignerIssues
    \/ Yield

ConcurrentSpec == ConcurrentInit /\ [][ConcurrentNext]_vars

\* ------------------------------------------------- certificate lifetimes

\* Values of --expiration: the default, the last number of days whose seconds
\* fit 32 bits signed and the first that do not, and the first whose seconds
\* pass 2^32.
ExpirationDays == {1, 365, 24855, 24856, 49710, 49711}

LifetimeConfigs ==
    {[NoConfig EXCEPT !.Username = u, !.Expiration = d] :
        u \in Usernames, d \in ExpirationDays}

CreateWithExpiration == CreateUserWith(LifetimeConfigs)

LifetimeInit ==
    /\ Init
    /\ kubeconfig = ValidReference

\* CreateUser up to the end of submitCSR.
LifetimeNext ==
    \/ CreateWithExpiration
    \/ CreateUser_mkdir
    \/ CreateUser_genkey
    \/ CreateUser_savekey
    \/ CreateUser_createcsr
    \/ CreateUser_savecsr
    \/ CreateUser_submit

LifetimeSpec == LifetimeInit /\ [][LifetimeNext]_vars

\* ------------------------------------------- cluster configuration (config)

\* Nodes in a configuration's list.
MaxNodes == 2

\* Sample strings and what net.ParseCIDR and net.ParseIP make of them.
ParsableCIDRs == {"10.244.0.0/16", "10.96.0.0/12"}
IPv4Addresses == {"192.168.56.10", "192.168.56.200", "192.168.56.250"}
IPv6Addresses == {"fd00::10"}

ClusterConfigs ==
    {[Name |-> "lab", PodCIDR |-> "10.244.0.0/16", ServiceCIDR |-> "10.96.0.0/12"],
     [Name |-> "lab", PodCIDR |-> "10.244.0.0", ServiceCIDR |-> ""]}

VersionsConfigs == {[Kubernetes |-> "1.32", CriO |-> "v1.32"]}

\* A MetalLB range is its parts between the hyphens.
NetworkConfigs ==
    {[Interface |-> "eth1", ControlPlaneIP |-> "192.168.56.10", MetalLBRange |-> <<>>],
     [Interface |-> "eth1", ControlPlaneIP |-> "192.168.56.10",
      MetalLBRange |-> <<"192.168.56.200", "192.168.56.250">>],
     [Interface |-> "eth1", ControlPlaneIP |-> "192.168.56.10",
      MetalLBRange |-> <<"192.168.56.200", "fd00::10">>],
     [Interface |-> "", ControlPlaneIP |-> "192.168.56",
      MetalLBRange |-> <<"192.168.56.200">>]}

StorageConfigs == {[NFSServer |-> "", NFSPath |-> "/exports"]}

NodeConfigs ==
    [Name : {"", "node01"}, IP : {"", "192.168.56.10", "192.168.56"},
     Role : {"", "controlplane", "worker", "master"}]

NodeLists ==
    UNION {[1..n -> NodeConfigs] : n \in 0..MaxNodes}

\* The zero values of the structs.
ZeroConfig ==
    [Cluster |-> [Name |-> "", PodCIDR |-> "", ServiceCIDR |-> ""],
     Versions |-> [Kubernetes |-> "", CriO |-> ""],
     Network |-> [Interface |-> "", ControlPlaneIP |-> "", MetalLBRange |-> <<>>],
     Storage |-> [NFSServer |-> "", NFSPath |-> ""],
     Nodes |-> <<>>]

\* A YAML document: the top-level keys it has, and their values (under a key
\* it lacks, nothing: written as the zero value).
Sections == {"Cluster", "Versions", "Network", "Storage", "Nodes"}

\* Documents with every key, and documents that lack one of them; their nodes
\* are one of nodeLists.
Documents(nodeLists) ==
    LET full == [Cluster : ClusterConfigs, Versions : VersionsConfigs,
                 Network : NetworkConfigs, Storage : StorageConfigs,
                 Nodes : nodeLists \ {<<>>}]
    IN  {[keys |-> Sections, values |-> d] : d \in full}
        \cup {[keys |-> Sections \ {gone},
               values |-> [d EXCEPT ![gone] = ZeroConfig[gone]]] :
                 d \in full, gone \in Sections}

\* A file that is not there, one that is not YAML, and one for each document.
ConfigFiles(documents) ==
    {NoFile, [exists |-> TRUE, wellFormed |-> FALSE, document |-> NoDocument]}
        \cup {[exists |-> TRUE, wellFormed |-> TRUE, document |-> d] : d \in documents}

\* yaml.Unmarshal(data, &cfg) on a zero Config: the keys of the document are
\* set, the others keep their zero value.
Unmarshal(document) ==
    LET value(key) == IF key \in document.keys THEN document.values[key]
                      ELSE ZeroConfig[key]
    IN  [Cluster |-> value("Cluster"), Versions |-> value("Versions"),
         Network |-> value("Network"), Storage |-> value("Storage"),
         Nodes |-> value("Nodes")]

isValidIP(ip) == ip \in IPv4Addresses \cup IPv6Addresses

isValidCIDR(cidr) == cidr \in ParsableCIDRs

\* A message of Validate; node is the index of the node it is about, -1 when it
\* is about none.
Message(node, text) == [node |-> node, text |-> text]

Check(failed, node, text) == IF failed THEN <<Message(node, text)>> ELSE <<>>

\* validateIPRange: the error, or <<>>.
validateIPRange(ipRange) ==
    IF Len(ipRange) # 2 THEN <<"must be in format 'startIP-endIP'">>
    ELSE IF ~isValidIP(ipRange[1]) THEN <<"start IP is invalid">>
    ELSE IF ~isValidIP(ipRange[2]) THEN <<"end IP is invalid">>
    ELSE IF (ipRange[1] \in IPv4Addresses) # (ipRange[2] \in IPv4Addresses)
    THEN <<"start and end IPs must be the same version (IPv4 or IPv6)">>
    ELSE <<>>

\* The messages of Validate's loop for the nodes from index i (counted from 0,
\* as the messages count) on.
RECURSIVE NodeErrors(_, _)
NodeErrors(nodes, i) ==
    IF i >= Len(nodes) THEN <<>>
    ELSE LET node == nodes[i + 1]
             validRoles == {"storage", "controlplane", "worker"}
         IN  Check(node.Name = "", i, "name is required")
             \o (IF node.Role = "" THEN <<Message(i, "role is required")>>
                 ELSE Check(node.Role \notin validRoles, i, "role is invalid"))
             \o Check(node.IP # "" /\ ~isValidIP(node.IP), i, "ip is not a valid IP address")
             \o NodeErrors(nodes, i + 1)

\* Faulty variant of hasControlPlane: any node counts.
hasControlPlane_anyNode(nodes) == Len(nodes) > 0

\* Validate's flag hasControlPlane after the loop.
hasControlPlane(nodes) == \E i \in 1..Len(nodes) : nodes[i].Role = "controlplane"

\* Config.Validate: the messages joined into its error; <<>> is nil.
Validate(c) ==
    Check(c.Cluster.Name = "", -1, "cluster.name is required")
    \o (IF c.Cluster.PodCIDR = ""
        THEN <<Message(-1, "cluster.pod_cidr is required")>>
        ELSE Check(~isValidCIDR(c.Cluster.PodCIDR), -1, "cluster.pod_cidr is not a valid CIDR"))
    \o (IF c.Cluster.ServiceCIDR = ""
        THEN <<Message(-1, "cluster.service_cidr is required")>>
        ELSE Check(~isValidCIDR(c.Cluster.ServiceCIDR), -1,
                   "cluster.service_cidr is not a valid CIDR"))
    \o Check(c.Versions.Kubernetes = "", -1, "versions.kubernetes is required")
    \o Check(c.Versions.CriO = "", -1, "versions.crio is required")
    \o Check(c.Network.Interface = "", -1, "network.interface is required")
    \o (IF c.Network.ControlPlaneIP = ""
        THEN <<Message(-1, "network.controlplane_ip is required")>>
        ELSE Check(~isValidIP(c.Network.ControlPlaneIP), -1,
                   "network.controlplane_ip is not a valid IP address"))
    \o (IF c.Network.MetalLBRange # <<>>
        THEN Check(validateIPRange(c.Network.MetalLBRange) # <<>>, -1,
                   "network.metallb_range")
        ELSE <<>>)
    \o Check(c.Storage.NFSPath = "", -1, "storage.nfs_path is required")
    \o Check(Len(c.Nodes) = 0, -1, "at least one node must be defined")
    \o NodeErrors(c.Nodes, 0)
    \o Check(~hasControlPlane(c.Nodes), -1,
             "at least one node with role 'controlplane' is required")

\* Faulty variant of LoadResult: the Config is returned with the validation error.
LoadResult_returnsBoth(file) ==
    IF ~file.exists
    THEN [cfg |-> <<>>, err |-> <<Message(-1, "no such file or directory")>>]
    ELSE IF ~file.wellFormed
    THEN [cfg |-> <<>>, err |-> <<Message(-1, "yaml: cannot unmarshal")>>]
    ELSE LET c == Unmarshal(file.document) IN
         IF Validate(c) # <<>>
         THEN [cfg |-> <<c>>,
               err |-> <<Message(-1, "config validation failed")>> \o Validate(c)]
         ELSE [cfg |-> <<c>>, err |-> <<>>]

\* config.Load: what it returns for the file at path.
LoadResult(file) ==
    IF ~file.exists
    THEN [cfg |-> <<>>, err |-> <<Message(-1, "no such file or directory")>>]
    ELSE IF ~file.wellFormed
    THEN [cfg |-> <<>>, err |-> <<Message(-1, "yaml: cannot unmarshal")>>]
    ELSE LET c == Unmarshal(file.document) IN
         IF Validate(c) # <<>>
         THEN [cfg |-> <<>>,
               err |-> <<Message(-1, "config validation failed")>> \o Validate(c)]
         ELSE [cfg |-> <<c>>, err |-> <<>>]

\* Config.GetControlPlane: the first node of the list with that role, <<>> for
\* nil.
RECURSIVE GetControlPlane(_)
GetControlPlane(nodes) ==
    IF nodes = <<>> THEN <<>>
    ELSE IF Head(nodes).Role = "controlplane" THEN <<Head(nodes)>>
    ELSE GetControlPlane(Tail(nodes))

\* What package config leaves alone.
userVars ==
    <<fs, outputDirExists, kubeconfig, store, nkeys, calls, op, pc, cfg, local, err,
      log, faults, out, before, parked>>

\* cmd/root.go PersistentPreRunE: cfg, err = config.Load(cfgFile)
Load ==
    /\ loaded.call = "none"
    /\ loaded' = [call |-> "Load", cfg |-> LoadResult(configFile).cfg,
                  err |-> LoadResult(configFile).err, node |-> <<>>]
    /\ UNCHANGED <<userVars, configFile>>

\* Validate called on a Config that was not loaded with Load (as the tests do,
\* on the document's content).
CallValidate ==
    /\ loaded.call = "none"
    /\ configFile.exists
    /\ configFile.wellFormed
    /\ loaded' = [call |-> "Validate", cfg |-> <<Unmarshal(configFile.document)>>,
                  err |-> Validate(Unmarshal(configFile.document)), node |-> <<>>]
    /\ UNCHANGED <<userVars, configFile>>

\* GetControlPlane called on the Config that Load returned or Validate looked at.
CallGetControlPlane ==
    /\ loaded.call \in {"Load", "Validate"}
    /\ loaded.cfg # <<>>
    /\ loaded' = [loaded EXCEPT !.call = "GetControlPlane",
                                !.node = GetControlPlane(loaded.cfg[1].Nodes)]
    /\ UNCHANGED <<userVars, configFile>>

ConfigInit ==
    /\ InitUser
    /\ kubeconfig = ValidReference
    /\ configFile \in ConfigFiles(Documents(NodeLists))
    /\ loaded = NotLoaded

ConfigNext == Load \/ CallValidate \/ CallGetControlPlane

ConfigSpec == ConfigInit /\ [][ConfigNext]_vars

\* ------------------------------------------------------------ vocabulary

Range(seq) == {seq[i] : i \in 1..Len(seq)}

Index(seq, x) == CHOOSE i \in 1..Len(seq) : seq[i] = x

CreateDone == op = "create" /\ pc = "done"

CreateOK == CreateDone /\ err = "nil"

DeleteDone == op = "delete" /\ pc = "done"

TimedOut == CreateDone /\ err = "timeout waiting for certificate"

ValidationError == "--namespace is required when using --role"

\* ---------------------------------------------------------------- claims

\* C1 (as claimed): a create with a namespace role and no namespace, on a
\* registry that has no directory for the username, fails with the validation
\* error, generates no key and leaves no directory, whichever way CreateUser
\* is entered.
C1_ValidationBeforeSideEffects ==
    (/\ op = "create"
     /\ cfg.Role # <<>>
     /\ cfg.Namespace = ""
     /\ ~before.fs[cfg.Username].exists)
        => /\ "genkey" \notin Range(log)
           /\ ~fs[cfg.Username].exists
           /\ pc = "done" => err = ValidationError

\* C2 (as claimed): after CreateUser returns the certificate timeout, no
\* kubeconfig file exists for the username.
C2_NoBundleAfterTimeout ==
    TimedOut => fs[cfg.Username].kubeconfig = <<>>

\* C2 (amended): a CreateUser that returns the certificate timeout has stopped
\* at the wait and has written neither certificate nor kubeconfig: both files
\* are as they were when the call began (absent unless an earlier CreateUser
\* for the username left them).
C2_TimeoutWritesNoBundle ==
    TimedOut =>
        /\ log = <<"mkdir", "genkey", "savekey", "createcsr", "savecsr", "submit",
                   "approve", "wait">>
        /\ fs[cfg.Username].kubeconfig = before.fs[cfg.Username].kubeconfig
        /\ fs[cfg.Username].crt = before.fs[cfg.Username].crt

C2_Witness ==
    /\ TimedOut
    /\ before.fs[cfg.Username].kubeconfig # <<>>
    /\ fs[cfg.Username].kubeconfig # <<>>

\* C3 (as claimed): after a successful CreateUser with a cluster role, the
\* binding of that name has exactly the subjects and role reference of this
\* call's arguments.
C3_BindingMatchesArguments ==
    (CreateOK /\ cfg.ClusterRole # <<>>) =>
        Named(crbs, BindingName(cfg.Username, cfg.ClusterRole))
            = {ClusterRoleBinding(cfg.Username, cfg.Groups, cfg.ClusterRole)}

\* C3 (amended): after a successful CreateUser with a cluster role, exactly one
\* binding of that name exists: the one built from this call's arguments when
\* none of that name existed before the call, and otherwise the binding that
\* existed before, unchanged.
C3_BindingPresentAfterCreate ==
    (CreateOK /\ cfg.ClusterRole # <<>>) =>
        LET name == BindingName(cfg.Username, cfg.ClusterRole)
            old == Named(before.crbs, name)
        IN  /\ Cardinality(Named(crbs, name)) = 1
            /\ Named(crbs, name) =
                 IF old = {}
                 THEN {ClusterRoleBinding(cfg.Username, cfg.Groups, cfg.ClusterRole)}
                 ELSE old

C3_Witness ==
    /\ CreateOK
    /\ cfg.ClusterRole # <<>>
    /\ \E b \in crbs :
        /\ b.Name = BindingName(cfg.Username, cfg.ClusterRole)
        /\ b # ClusterRoleBinding(cfg.Username, cfg.Groups, cfg.ClusterRole)

\* C4: a Create of a ClusterRoleBinding, RoleBinding or Role whose name is
\* taken, and which the API server does not fail for another reason, is not
\* returned as an error, and leaves exactly one object of that name, the one
\* that was there.
C4_CreateIsIdempotent ==
    /\ (op = "create" /\ "bindcluster" \in Range(log)) =>
        LET name == BindingName(cfg.Username, cfg.ClusterRole) IN
        (/\ Named(before.crbs, name) # {}
         /\ Fault("create clusterrolebinding", name, "") \notin faults)
            => /\ err # "failed to create ClusterRoleBinding"
               /\ Named(crbs, name) = Named(before.crbs, name)
               /\ Cardinality(Named(crbs, name)) = 1
    /\ (op = "create" /\ "bindrole" \in Range(log)) =>
        LET name == BindingName(cfg.Username, cfg.Role) IN
        (/\ NamedIn(before.rbs, name, cfg.Namespace) # {}
         /\ Fault("create rolebinding", name, cfg.Namespace) \notin faults)
            => /\ err # "failed to create RoleBinding"
               /\ NamedIn(rbs, name, cfg.Namespace)
                    = NamedIn(before.rbs, name, cfg.Namespace)
               /\ Cardinality(NamedIn(rbs, name, cfg.Namespace)) = 1
    /\ (/\ op = "createrole"
        /\ pc = "done"
        /\ NamedIn(before.roles, cfg.Role, cfg.Namespace) # {}
        /\ Fault("create role", cfg.Role, cfg.Namespace) \notin faults)
            => /\ err = "nil"
               /\ NamedIn(roles, cfg.Role, cfg.Namespace)
                    = NamedIn(before.roles, cfg.Role, cfg.Namespace)
               /\ Cardinality(NamedIn(roles, cfg.Role, cfg.Namespace)) = 1

\* A second call with the arguments of the call that created the binding.
C4_Witness ==
    /\ CreateOK
    /\ "bindcluster" \in Range(log)
    /\ Named(before.crbs, BindingName(cfg.Username, cfg.ClusterRole))
         = {ClusterRoleBinding(cfg.Username, cfg.Groups, cfg.ClusterRole)}
    /\ Line("ClusterRoleBinding already exists, skipping...") \in out

\* C5: a ListUsers that follows a successful CreateUser directly and can read
\* the output directory prints a row for that username, with the path of its
\* kubeconfig and the groups of its certificate, which are the groups given to
\* CreateUser ("-" for none).
C5_ListAfterCreate ==
    [][(CreateOK /\ op' = "list" /\ err' = "nil") =>
        \E row \in out' :
            /\ row.text = "row"
            /\ row.username = cfg.Username
            /\ row.kubeconfig = KubeconfigPath(cfg.Username)
            /\ row.groups = getGroupsFromCert(fs[cfg.Username].crt)
            /\ row.groups = IF cfg.Groups = <<>> THEN <<"-">> ELSE cfg.Groups]_vars

C5_Witness ==
    /\ op = "list"
    /\ pc = "done"
    /\ \E row \in out : row.text = "row" /\ row.groups = <<"dev">>

\* The registry, the signing requests and the bindings as they were when the
\* operation began hold nothing of the username: no directory, no signing
\* request of its name, no binding whose user subject it is.
NoTraceBefore(username) ==
    /\ ~before.fs[username].exists
    /\ Named(before.csrs, CsrName(username)) = {}
    /\ \A b \in before.crbs : b.Subjects[1].Name # username
    /\ \A b \in before.rbs : b.Subjects[1].Name # username

CsrNames(objs) == {c.Name : c \in objs}

\* C6 (as claimed): DeleteUser of a username of which nothing exists returns nil
\* and leaves the registry, the signing requests and all bindings as they were.
C6_DeleteUnknownLeavesNoTrace ==
    (DeleteDone /\ NoTraceBefore(cfg.Username)) =>
        /\ err = "nil"
        /\ fs = before.fs
        /\ CsrNames(csrs) = CsrNames(before.csrs)
        /\ crbs = before.crbs
        /\ rbs = before.rbs

\* C7: DeleteUser never returns an error and never stops early: whatever calls
\* fail, it returns nil after all four steps and the success message, and
\* everything it is to remove is gone except what a failed call accounts for (a
\* failed list of the cluster's bindings, of the namespaces or of one
\* namespace's bindings; a failed delete of that object; a failed removal of
\* the directory).
C7_DeleteIsBestEffort ==
    /\ op = "delete" => err = "nil"
    /\ DeleteDone =>
        /\ log = <<"del_crb", "del_rb", "del_csr", "del_files">>
        /\ Line("User deleted successfully!") \in out
        /\ \A b \in crbs : HasUserPrefix(b.Name, cfg.Username) =>
              \/ Fault("list clusterrolebindings", <<>>, "") \in faults
              \/ Fault("delete clusterrolebinding", b.Name, "") \in faults
        /\ \A b \in rbs : HasUserPrefix(b.Name, cfg.Username) =>
              \/ Fault("list namespaces", <<>>, "") \in faults
              \/ Fault("list rolebindings", <<>>, b.Namespace) \in faults
              \/ Fault("delete rolebinding", b.Name, b.Namespace) \in faults
        /\ Named(csrs, CsrName(cfg.Username)) # {} =>
              Fault("delete csr", CsrName(cfg.Username), "") \in faults
        /\ fs[cfg.Username].exists =>
              Fault("remove directory", cfg.Username, "") \in faults

\* Two lists failed, and the namespace that could be listed was still cleaned
\* and the directory removed.
C7_Witness ==
    /\ DeleteDone
    /\ Fault("list clusterrolebindings", <<>>, "") \in faults
    /\ Fault("list rolebindings", <<>>, "qa") \in faults
    /\ \E b \in before.rbs : b.Namespace = "dev" /\ b \notin rbs
    /\ before.fs[cfg.Username].exists
    /\ ~fs[cfg.Username].exists

\* C8: after a DeleteUser in which no call failed, no ClusterRoleBinding and no
\* RoleBinding is named username+"-"..., no signing request username+"-csr"
\* exists, the directory is gone and ListUsers prints no row for the username.
C8_DeleteReversesCreate ==
    (DeleteDone /\ faults = {}) =>
        /\ \A b \in crbs : ~HasPrefix(b.Name, cfg.Username)
        /\ \A b \in rbs : ~HasPrefix(b.Name, cfg.Username)
        /\ Named(csrs, CsrName(cfg.Username)) = {}
        /\ fs[cfg.Username] = NoDir
        /\ \A readOk \in BOOLEAN :
              \A row \in ListUsersResult(readOk).out : row.username # cfg.Username

\* The delete follows a create that left directory, kubeconfig and bindings.
C8_Witness ==
    /\ DeleteDone
    /\ faults = {}
    /\ before.fs[cfg.Username].kubeconfig # <<>>
    /\ \E b \in before.crbs : b.Subjects[1].Name = cfg.Username
    /\ \E b \in before.rbs : b.Subjects[1].Name = cfg.Username

\* C9 (as claimed): whenever CreateUser returns after its signing request was
\* submitted, with nil or with an error, it has attempted to delete the request.
C9_CleanupOnEveryPath ==
    (CreateDone /\ "approve" \in Range(log)) => "cleanup" \in Range(log)

\* The order of C10's claim, in the steps of the code.
ClaimedOrder ==
    <<"genkey", "submit", "approve", "wait", "savekey", "savecert", "kubeconfig",
      "bindcluster", "bindrole", "cleanup">>

\* The order of the statements of CreateUser.
CodeOrder ==
    <<"mkdir", "genkey", "savekey", "createcsr", "savecsr", "submit", "approve",
      "wait", "savecert", "kubeconfig", "bindcluster", "bindrole", "cleanup",
      "usage">>

OptionalSteps == {"bindcluster", "bindrole"}

Files(dir) == <<dir.key, dir.csr, dir.crt, dir.kubeconfig>>

\* The steps of l that order names occur in l in the order of order.
FollowsOrder(l, order) ==
    \A i, j \in 1..Len(l) :
        (i < j /\ l[i] \in Range(order) /\ l[j] \in Range(order))
            => Index(order, l[i]) < Index(order, l[j])

\* C10 (as claimed): the key is persisted only after the wait, and no file of
\* the registry directory changes before the certificate has been obtained.
C10_ClaimedOrder ==
    op = "create" =>
        /\ FollowsOrder(log, ClaimedOrder)
        /\ Files(fs[cfg.Username]) # Files(before.fs[cfg.Username])
              => (pc = "savecert" \/ "savecert" \in Range(log))

\* C10 (amended): CreateUser performs its steps in the order of CodeOrder, each
\* at most once and none before the mandatory ones that precede it; the two
\* bindings are attempted exactly when requested; the key file and the CSR file
\* are written before the request is submitted, the certificate file and the
\* kubeconfig only after the wait has returned a certificate.
C10_CodeOrder ==
    op = "create" =>
        /\ Range(log) \subseteq Range(CodeOrder)
        /\ \A i, j \in 1..Len(log) :
              i < j => Index(CodeOrder, log[i]) < Index(CodeOrder, log[j])
        /\ \A i \in 1..Len(log) : \A k \in 1..(Index(CodeOrder, log[i]) - 1) :
              CodeOrder[k] \notin OptionalSteps => CodeOrder[k] \in Range(log)
        /\ "bindcluster" \in Range(log) => cfg.ClusterRole # <<>>
        /\ "bindrole" \in Range(log) => (cfg.Role # <<>> /\ cfg.Namespace # "")
        /\ CreateOK =>
              /\ Range(CodeOrder) \ OptionalSteps \subseteq Range(log)
              /\ cfg.ClusterRole # <<>> => "bindcluster" \in Range(log)
              /\ (cfg.Role # <<>> /\ cfg.Namespace # "") => "bindrole" \in Range(log)
        /\ LET dir == fs[cfg.Username]
               old == before.fs[cfg.Username]
           IN  /\ dir.key # old.key => "savekey" \in Range(log)
               /\ dir.csr # old.csr => "savecsr" \in Range(log)
               /\ dir.crt # old.crt => "savecert" \in Range(log)
               /\ dir.kubeconfig # old.kubeconfig => "kubeconfig" \in Range(log)
               /\ "submit" \in Range(log) => (dir.key # old.key /\ dir.csr # <<>>)

\* A successful create with both bindings: every step, in the code's order.
C10_Witness ==
    /\ CreateOK
    /\ log = CodeOrder


\* The errors each step of CreateUser can return.
StepErrors(s) ==
    CASE s = "mkdir" -> {"failed to create user directory"}
      [] s = "genkey" -> {"failed to generate private key"}
      [] s = "savekey" -> {"failed to save private key"}
      [] s = "createcsr" -> {"failed to create CSR"}
      [] s = "savecsr" -> {"failed to save CSR"}
      [] s = "submit" -> {"failed to submit CSR"}
      [] s = "approve" -> {"failed to get CSR", "failed to approve CSR"}
      [] s = "wait" -> {"failed to get CSR", "timeout waiting for certificate"}
      [] s = "savecert" -> {"failed to save certificate"}
      [] s = "kubeconfig" -> {"failed to load kubeconfig", "no current context in kubeconfig",
                              "context not found", "cluster not found",
                              "failed to read key or cert", "failed to write kubeconfig"}
      [] s = "bindcluster" -> {"failed to create ClusterRoleBinding"}
      [] s = "bindrole" -> {"failed to create RoleBinding"}
      [] OTHER -> {}

\* CreateUser has returned an error from one of its own steps.
CreateFailed == CreateDone /\ err # "nil" /\ log # <<>>

\* The steps CreateUser completed before the one that failed.
Completed == Range(SubSeq(log, 1, Len(log) - 1))

\* Name and request bytes of every signing request.
CsrRequests(objs) == {<<c.Name, c.Request>> : c \in objs}

\* C11: when a step of CreateUser fails, the error returned is that step's, the
\* step is the last one performed (no usage, no success message), every file and
\* object that a completed step produced is in place, and every file and object
\* that only the failed or a later step would have produced is as it was before
\* the call.
C11_FailureStopsAndKeeps ==
    CreateFailed =>
        LET last == log[Len(log)]
            dir == fs[cfg.Username]
            old == before.fs[cfg.Username]
            request == Named(csrs, CsrName(cfg.Username))
        IN  /\ err \in StepErrors(last)
            /\ FollowsOrder(log, CodeOrder)
            /\ "cleanup" \notin Range(log) /\ "usage" \notin Range(log)
            /\ Line("Usage Instructions") \notin out
            /\ Line("User created successfully!") \notin out
            /\ "mkdir" \in Completed => dir.exists
            /\ "savekey" \in Completed => dir.key = <<PrivateKeyPEM(nkeys)>>
            /\ "savecsr" \in Completed =>
                  dir.csr = <<createCSR(nkeys, cfg.Username, cfg.Groups)>>
            /\ "submit" \in Completed =>
                  /\ Cardinality(request) = 1
                  /\ \A c \in request : c.Request = dir.csr[1]
            /\ "approve" \in Completed => \A c \in request : Approved(c)
            /\ "savecert" \in Completed =>
                  dir.crt = <<SignedCertificate(dir.csr[1])>>
            /\ "kubeconfig" \in Completed =>
                  dir.kubeconfig = <<NewKubeconfig(kubeconfig, cfg.Username,
                                                   dir.key[1], dir.crt[1])>>
            /\ "bindcluster" \in Completed =>
                  Named(crbs, BindingName(cfg.Username, cfg.ClusterRole)) # {}
            /\ "mkdir" \notin Completed => dir = old
            /\ "savekey" \notin Completed => dir.key = old.key
            /\ "savecsr" \notin Completed => dir.csr = old.csr
            /\ "savecert" \notin Completed => dir.crt = old.crt
            /\ "kubeconfig" \notin Completed => dir.kubeconfig = old.kubeconfig
            /\ "submit" \notin Range(log) => CsrRequests(csrs) = CsrRequests(before.csrs)
            /\ "bindcluster" \notin Completed => crbs = before.crbs
            /\ rbs = before.rbs
            /\ roles = before.roles

\* The role binding failed after the cluster binding was created and the
\* kubeconfig written.
C11_Witness ==
    /\ CreateFailed
    /\ err = "failed to create RoleBinding"
    /\ crbs # before.crbs
    /\ fs[cfg.Username].kubeconfig # before.fs[cfg.Username].kubeconfig
    /\ Named(csrs, CsrName(cfg.Username)) # {}


\* The files of a directory are those of one CreateUser(username, groups) with
\* key k: the key, its CSR, the certificate signed for it, and the kubeconfig
\* that embeds both.
Provisioned(dir, k, username, groups) ==
    /\ dir.exists
    /\ dir.key = <<PrivateKeyPEM(k)>>
    /\ dir.csr = <<createCSR(k, username, groups)>>
    /\ dir.crt = <<SignedCertificate(createCSR(k, username, groups))>>
    /\ dir.kubeconfig =
         <<NewKubeconfig(kubeconfig, username, dir.key[1], dir.crt[1])>>

\* C12: (a) when a CreateUser that follows a CreateUser with the same UserConfig
\* which failed at a binding step returns nil, no call having failed, the key,
\* certificate and kubeconfig of this call are in the registry and every binding
\* it was asked for (cluster role given; role and namespace given) is in the
\* cluster;
\* (b) a DeleteUser that follows such a failed CreateUser for the username, and
\* in which no call fails, leaves no directory, no signing request username-csr
\* and no binding named username-...
C12_PartialStateIsRepairable ==
    /\ (/\ CreateOK
        /\ before.after = "failed binding, same config"
        /\ faults = {})
        => /\ Provisioned(fs[cfg.Username], nkeys, cfg.Username, cfg.Groups)
           /\ cfg.ClusterRole # <<>> =>
                 Named(crbs, BindingName(cfg.Username, cfg.ClusterRole)) # {}
           /\ (cfg.Role # <<>> /\ cfg.Namespace # "") =>
                 NamedIn(rbs, BindingName(cfg.Username, cfg.Role), cfg.Namespace) # {}
    /\ (/\ DeleteDone
        /\ before.after = "failed binding, same username"
        /\ faults = {})
        => /\ err = "nil"
           /\ fs[cfg.Username] = NoDir
           /\ Named(csrs, CsrName(cfg.Username)) = {}
           /\ \A b \in crbs \cup rbs : ~HasUserPrefix(b.Name, cfg.Username)

\* The first attempt created the cluster binding and failed at the role
\* binding; the second ran through, skipping the one and creating the other.
C12_Witness ==
    /\ CreateOK
    /\ before.after = "failed binding, same config"
    /\ faults = {}
    /\ Named(before.csrs, CsrName(cfg.Username)) # {}
    /\ Line("ClusterRoleBinding already exists, skipping...") \in out
    /\ NamedIn(before.rbs, BindingName(cfg.Username, cfg.Role), cfg.Namespace) = {}
    /\ NamedIn(rbs, BindingName(cfg.Username, cfg.Role), cfg.Namespace) # {}


\* C13 (as claimed): a successful create with a namespace and a cluster role and
\* no role creates no ClusterRoleBinding, and grants the cluster role through a
\* RoleBinding in that namespace.
C13_NamespaceScopedGrant ==
    (/\ CreateOK
     /\ cfg.Namespace # ""
     /\ cfg.ClusterRole # <<>>
     /\ cfg.Role = <<>>
     /\ Named(before.crbs, BindingName(cfg.Username, cfg.ClusterRole)) = {})
        => /\ crbs = before.crbs
           /\ \E b \in rbs :
                /\ b.Namespace = cfg.Namespace
                /\ b.Subjects[1] = Subject("User", cfg.Username)
                /\ b.RoleRef.Name = cfg.ClusterRole


\* The RBAC objects of the cluster.
AuthorizationStore == <<crbs, rbs, roles>>

\* C14: a CreateUser with no cluster role makes no ClusterRoleBinding call and
\* one with no role no RoleBinding call; with neither, it fails at no binding
\* step and not at validation, and the RBAC objects stay as they were.
C14_NoBindingForEmptyRole ==
    op = "create" =>
        /\ cfg.ClusterRole = <<>> =>
              /\ "bindcluster" \notin Range(log)
              /\ crbs = before.crbs
              /\ \A f \in faults : f.call # "create clusterrolebinding"
        /\ cfg.Role = <<>> =>
              /\ "bindrole" \notin Range(log)
              /\ rbs = before.rbs
              /\ \A f \in faults : f.call # "create rolebinding"
        /\ (cfg.ClusterRole = <<>> /\ cfg.Role = <<>>) =>
              /\ AuthorizationStore = <<before.crbs, before.rbs, before.roles>>
              /\ err \notin BindingErrors \cup {ValidationError}

\* Entered through runUserCreate with neither role: the warning was printed and
\* the create ran to its end.
C14_Witness ==
    /\ CreateOK
    /\ cfg.ClusterRole = <<>> /\ cfg.Role = <<>> /\ cfg.Namespace # ""
    /\ Line("Warning: No --cluster-role or --role specified.") \in out
    /\ Line("User created successfully!") \in out


\* The kubeconfig files of the registry.
Bundles == {u \in Usernames : fs[u].kubeconfig # <<>>}

\* CreateUser has completed its createKubeconfig step.
BundleWritten ==
    /\ op = "create"
    /\ "kubeconfig" \in Range(log)
    /\ CreateFailed => log[Len(log)] # "kubeconfig"

\* C15: every kubeconfig file in the registry holds exactly one cluster; exactly
\* one credential, named for the user, with a certificate for that user and the
\* key it was issued for; exactly one context, named username@cluster, joining
\* the two, which is the current context. The file CreateUser has just written
\* has the current context's cluster of the reference, with its Server and
\* CertificateAuthorityData, and no other cluster, credential or context of the
\* reference.
C15_BundleHoldsOneOfEach ==
    /\ \A u \in Bundles :
        LET new == fs[u].kubeconfig[1] IN
        /\ Cardinality(new.Clusters) = 1
        /\ Cardinality(new.AuthInfos) = 1
        /\ Cardinality(new.Contexts) = 1
        /\ \A a \in new.AuthInfos :
              /\ a.name = u
              /\ a.ClientCertificateData.cn = u
              /\ a.ClientCertificateData.pub = a.ClientKeyData.priv
              /\ a.ClientKeyData.priv \in 1..nkeys
        /\ \A c \in new.Contexts : \A cl \in new.Clusters :
              /\ c.name = ContextName(u, cl.name)
              /\ c.Cluster = cl.name
              /\ c.AuthInfo = u
              /\ new.CurrentContext = c.name
    /\ BundleWritten =>
        LET new == fs[cfg.Username].kubeconfig[1]
            active == CHOOSE c \in Lookup(kubeconfig.Contexts, kubeconfig.CurrentContext) : TRUE
            cluster == CHOOSE c \in Lookup(kubeconfig.Clusters, active.Cluster) : TRUE
        IN  /\ ReferenceError(kubeconfig) = "nil"
            /\ \A c \in new.Clusters :
                  /\ c.name = active.Cluster
                  /\ c.Server = cluster.Server
                  /\ c.CertificateAuthorityData = cluster.CertificateAuthorityData
            /\ \A c \in kubeconfig.Clusters :
                  c.name # active.Cluster => Lookup(new.Clusters, c.name) = {}
            /\ \A a \in kubeconfig.AuthInfos : Lookup(new.AuthInfos, a.name) = {}
            /\ \A c \in kubeconfig.Contexts : Lookup(new.Contexts, c.name) = {}

\* A kubeconfig written from a reference with two clusters, credentials and
\* contexts.
C15_Witness ==
    /\ CreateOK
    /\ cfg.Username \in Bundles
    /\ Cardinality(kubeconfig.Clusters) = 2
    /\ Cardinality(kubeconfig.AuthInfos) = 2
    /\ Cardinality(kubeconfig.Contexts) = 2
    /\ kubeconfig.CurrentContext = <<"ops", "@", "staging">>


\* C16: when the reference kubeconfig has no current context, or its current
\* context or that context's cluster is missing, a CreateUser that reaches
\* createKubeconfig returns there, with that error if the file could be loaded;
\* no kubeconfig file of the registry changes, no binding step is performed and
\* the bindings stay as they were.
C16_ReferenceErrorStopsCreate ==
    (op = "create" /\ ReferenceError(kubeconfig) # "nil") =>
        /\ \A u \in Usernames : fs[u].kubeconfig = before.fs[u].kubeconfig
        /\ "bindcluster" \notin Range(log) /\ "bindrole" \notin Range(log)
        /\ crbs = before.crbs /\ rbs = before.rbs
        /\ "kubeconfig" \in Range(log) =>
              /\ pc = "done"
              /\ log[Len(log)] = "kubeconfig"
              /\ err \in {ReferenceError(kubeconfig), "failed to load kubeconfig"}
        /\ ~CreateOK

\* The current context was unset after an earlier CreateUser wrote a kubeconfig
\* for the username; the file is still the old one, and both roles were asked
\* for.
C16_Witness ==
    /\ CreateDone
    /\ err = "no current context in kubeconfig"
    /\ fs[cfg.Username].kubeconfig # <<>>
    /\ \E a \in fs[cfg.Username].kubeconfig[1].AuthInfos :
          a.ClientKeyData # fs[cfg.Username].key[1]
    /\ cfg.ClusterRole # <<>>
    /\ cfg.Role # <<>> /\ cfg.Namespace # ""


\* CreateUser has submitted its signing request and not yet deleted it.
RequestSubmitted ==
    /\ op = "create"
    /\ "submit" \in Range(log)
    /\ CreateFailed => log[Len(log)] # "submit"
    /\ "cleanup" \notin Range(log)

\* C17: the signing request CreateUser has submitted has common name username
\* and organizations exactly the groups, and the public key of this call's key;
\* the certificate in the kubeconfig CreateUser has written is the one signed
\* for that request: common name username, organizations the groups, the key of
\* this call, the same certificate as in the registry's certificate file.
C17_SubjectIsUserAndGroups ==
    /\ RequestSubmitted =>
        /\ Cardinality(Named(csrs, CsrName(cfg.Username))) = 1
        /\ \A c \in Named(csrs, CsrName(cfg.Username)) :
              /\ c.Request.cn = cfg.Username
              /\ c.Request.org = cfg.Groups
              /\ c.Request.pub = nkeys
              /\ c.Certificate # <<>> =>
                    c.Certificate = <<SignedCertificate(c.Request)>>
    /\ BundleWritten =>
        \A a \in fs[cfg.Username].kubeconfig[1].AuthInfos :
            /\ a.ClientCertificateData.cn = cfg.Username
            /\ a.ClientCertificateData.org = cfg.Groups
            /\ a.ClientCertificateData =
                 SignedCertificate(createCSR(nkeys, cfg.Username, cfg.Groups))
            /\ <<a.ClientCertificateData>> = fs[cfg.Username].crt
            /\ a.ClientKeyData = PrivateKeyPEM(nkeys)

\* A second CreateUser for the username, now with a group, replaced the
\* certificate of the first, which had none.
C17_Witness ==
    /\ CreateOK
    /\ cfg.Groups = <<"dev">>
    /\ before.fs[cfg.Username].crt # <<>>
    /\ before.fs[cfg.Username].crt[1].org = <<>>
    /\ \E a \in fs[cfg.Username].kubeconfig[1].AuthInfos :
          a.ClientCertificateData.org = <<"dev">>


\* One step of the model seen from waitForCertificate: in the loop at most
\* PollBudget polls have been made; an iteration either polls again (the request
\* was read and showed no certificate), or returns the certificate the request
\* shows, which is not empty, or returns the timeout (not before the first
\* poll) or the error of Get.
WaitStep ==
    /\ pc' = "wait" => local'.polls <= PollBudget
    /\ (pc = "wait" /\ <<pc, local, err>>' # <<pc, local, err>>) =>
        LET request == Named(csrs, CsrName(cfg.Username)) IN
        \/ /\ pc' = "wait"
           /\ local'.polls = local.polls + 1
           /\ local.polls < PollBudget
           /\ \A c \in request : c.Certificate = <<>>
        \/ /\ pc' = "savecert"
           /\ err' = "nil"
           /\ local'.certPEM # <<>>
           /\ \E c \in request : local'.certPEM = c.Certificate
        \/ /\ pc' = "done"
           /\ err' = "timeout waiting for certificate"
           /\ local.polls > 0
        \/ /\ pc' = "done"
           /\ err' = "failed to get CSR"
    /\ pc' = "savecert" => local'.certPEM # <<>>

\* C18: waitForCertificate makes at most PollBudget polls, returns the
\* certificate at the poll that sees one, the timeout when the deadline has
\* passed, never an empty certificate without an error; and, the process running,
\* it always returns.
C18_WaitIsBounded ==
    /\ [][WaitStep]_vars
    /\ (pc = "wait") ~> (pc # "wait")

\* The deadline passed after PollBudget polls that saw no certificate.
C18_Witness ==
    /\ TimedOut
    /\ \E c \in Named(csrs, CsrName(cfg.Username)) : Approved(c) /\ c.Certificate = <<>>


\* Where the signing request of the running CreateUser stands.
Phase ==
    LET request == Named(csrs, CsrName(cfg.Username)) IN
    IF request = {} THEN "None"
    ELSE IF \E c \in request : c.Certificate # <<>> THEN "Issued"
    ELSE IF \E c \in request : Approved(c) THEN "Approved"
    ELSE "Submitted"

\* The positions of CreateUser after waitForCertificate has returned a
\* certificate.
AfterWait == {"savecert", "kubeconfig", "bindcluster", "bindrole", "cleanup"}

\* How often s occurs in log l.
Count(l, s) == Cardinality({i \in 1..Len(l) : l[i] = s})

\* One step of the model seen from the signing request of a CreateUser: it is
\* about to be approved only just after its submission succeeded; it is waited
\* for only after its approval succeeded; the timeout is returned only for an
\* approved request; after the wait has returned (a certificate, the timeout or
\* an error) the call neither submits, approves nor polls again and the
\* approval of the request is not touched.
Lifecycle ==
    /\ (op' = "create" /\ pc' = "approve") =>
          /\ Phase' = "Submitted"
          /\ log'[Len(log')] = "submit"
          /\ \A c \in Named(csrs', CsrName(cfg'.Username)) :
                c = SigningRequest(c.Name, local'.csrPEM[1], cfg'.Expiration)
    /\ (op' = "create" /\ pc' = "wait") =>
          /\ Phase' \in {"Approved", "Issued"}
          /\ "approve" \in Range(log')
    /\ (op' = "create" /\ pc' \in AfterWait) => Phase' = "Issued"
    /\ TimedOut' =>
          /\ Phase' \in {"Approved", "Issued"}
          /\ log'[Len(log')] = "wait"
    /\ op' = "create" =>
          /\ Count(log', "submit") <= 1
          /\ Count(log', "approve") <= 1
          /\ Count(log', "wait") <= 1
    /\ (op = "create" /\ pc \in AfterWait \cup {"done"} /\ calls' = calls) =>
          /\ pc' \notin {"submit", "approve", "wait"}
          /\ \A c \in Named(csrs', CsrName(cfg.Username)) :
                \E d \in Named(csrs, CsrName(cfg.Username)) :
                    d.Conditions = c.Conditions

\* C19: the signing request of a CreateUser goes Submitted -> Approved ->
\* Issued, with the timeout only from Approved, and Issued and the timeout
\* final: every step of the model is a Lifecycle step.
C19_RequestLifecycle == [][Lifecycle]_vars

\* The certificate was issued while CreateUser waited, after one poll that saw
\* none.
C19_Witness ==
    /\ op = "create"
    /\ pc = "savecert"
    /\ Phase = "Issued"
    /\ local.polls = 1


\* One step of the model seen from submitCSR when a request of the name exists:
\* submitCSR succeeds and then exactly one request of the name exists, the new
\* one, with this call's CSR, the client-auth usage only, no condition and no
\* certificate; or it returns its error, and then its Delete or its Create
\* failed.
SubmitOverStale ==
    (/\ op = "create"
     /\ pc = "submit"
     /\ Named(csrs, CsrName(cfg.Username)) # {}
     /\ pc' # "submit")
        => LET name == CsrName(cfg.Username) IN
           \/ /\ pc' = "approve"
              /\ err' = "nil"
              /\ Cardinality(Named(csrs', name)) = 1
              /\ \A c \in Named(csrs', name) :
                    /\ c.Request = local.csrPEM[1]
                    /\ c.Request.pub = nkeys
                    /\ c.Usages = <<"client auth">>
                    /\ c.Conditions = <<>>
                    /\ c.Certificate = <<>>
           \/ /\ pc' = "done"
              /\ err' = "failed to submit CSR"
              /\ \E f \in faults' : f.call \in {"delete csr", "create csr"}

\* C20: submission over a stale request of the same name: every step of the
\* model is a SubmitOverStale step.
C20_SubmitReplacesStale == [][SubmitOverStale]_vars

\* The request left by an earlier CreateUser had been issued; the new one is
\* submitted and has neither approval nor certificate.
C20_Witness ==
    /\ op = "create"
    /\ pc = "approve"
    /\ \E c \in Named(before.csrs, CsrName(cfg.Username)) :
          Approved(c) /\ c.Certificate # <<>>
    /\ \A c \in Named(csrs, CsrName(cfg.Username)) :
          ~Approved(c) /\ c.Certificate = <<>>


\* C24 (as claimed): a ListUsers that has returned left the registry, the
\* signing requests and the authorization store as they were; it returns nil
\* when the output directory is missing or holds no sub-directory; and when it
\* returns nil it has printed a row for every sub-directory of the output
\* directory, whether or not the directory holds a kubeconfig.
C24_ListEnumeratesDirectories ==
    (op = "list" /\ pc = "done") =>
        /\ <<fs, CsrRequests(csrs), crbs, rbs, roles>>
             = <<before.fs, CsrRequests(before.csrs), before.crbs, before.rbs,
                 before.roles>>
        /\ (~outputDirExists \/ \A u \in Usernames : ~fs[u].exists) =>
              (err = "nil" /\ out = {Line("No users found.")})
        /\ err = "nil" =>
              \A u \in Usernames : fs[u].exists => Row(u) \in out


\* C25 (as claimed): the signing request that CreateUser has submitted asks for
\* a lifetime of exactly 86400 seconds for each of the cfg.Expiration days.
C25_LifetimeIsExact ==
    (RequestSubmitted /\ cfg.Expiration > 0) =>
        \A c \in Named(csrs, CsrName(cfg.Username)) :
            /\ c.ExpirationSeconds > 0
            /\ c.ExpirationSeconds % 86400 = 0
            /\ c.ExpirationSeconds \div 86400 = cfg.Expiration


\* The value carries no private key: it is a record without the field of the
\* private exponent.
NoPrivateKey(value) == "priv" \notin DOMAIN value

\* C27: in every state of every sequence of operations, a key file has
\* permission bits for its owner only; the CSR and certificate files hold no
\* private key; what the cluster holds (every signing request with its request
\* bytes and certificate, every binding and role) holds none; nothing printed
\* holds one. The private key is in the key file and in the kubeconfig only.
C27_KeyStaysConfidential ==
    /\ \A u \in Usernames :
          /\ fs[u].key # <<>> =>
                /\ ~NoPrivateKey(fs[u].key[1])
                /\ fs[u].keyMode[2] = 0
                /\ fs[u].keyMode[3] = 0
          /\ fs[u].csr # <<>> => NoPrivateKey(fs[u].csr[1])
          /\ fs[u].crt # <<>> => NoPrivateKey(fs[u].crt[1])
          /\ fs[u].kubeconfig # <<>> =>
                \A a \in fs[u].kubeconfig[1].AuthInfos :
                    /\ ~NoPrivateKey(a.ClientKeyData)
                    /\ NoPrivateKey(a.ClientCertificateData)
    /\ \A c \in csrs :
          /\ DOMAIN c = {"Name", "Request", "SignerName", "ExpirationSeconds",
                         "Usages", "Conditions", "Certificate"}
          /\ NoPrivateKey(c.Request)
          /\ c.Certificate # <<>> => NoPrivateKey(c.Certificate[1])
    /\ \A b \in crbs : DOMAIN b = {"Name", "Subjects", "RoleRef"}
    /\ \A b \in rbs : DOMAIN b = {"Name", "Namespace", "Subjects", "RoleRef"}
    /\ \A r \in roles : DOMAIN r = {"Name", "Namespace", "Rules"}
    /\ \A l \in out : DOMAIN l = {"text", "username", "kubeconfig", "groups"}

\* A CreateUser has returned nil; its key is in the key file and the
\* kubeconfig, its signing request is still in the cluster, and it created a
\* binding.
C27_Witness ==
    /\ CreateOK
    /\ \E a \in fs[cfg.Username].kubeconfig[1].AuthInfos :
          a.ClientKeyData = fs[cfg.Username].key[1]
    /\ \E c \in Named(csrs, CsrName(cfg.Username)) :
          c.Request.pub = fs[cfg.Username].key[1].priv
    /\ \E b \in crbs : b.Subjects[1].Name = cfg.Username


\* C28 (as claimed): whenever no operation is running, a registry directory
\* that holds both a key file and a certificate file holds the certificate
\* issued for that key.
C28_RegistrySelfConsistent ==
    Idle =>
        \A u \in Usernames :
            (fs[u].key # <<>> /\ fs[u].crt # <<>>)
                => fs[u].crt[1].pub = fs[u].key[1].priv


\* The username a binding was created for: its user subject.
CreatedFor(binding) == binding.Subjects[1].Name

\* C29 (as claimed): a DeleteUser that has returned has deleted no binding that
\* was created for another username, and has removed no other username's
\* directory or signing request.
C29_DeleteTouchesOnlyOwn ==
    DeleteDone =>
        /\ \A b \in before.crbs : CreatedFor(b) # cfg.Username => b \in crbs
        /\ \A b \in before.rbs : CreatedFor(b) # cfg.Username => b \in rbs
        /\ \A u \in Usernames \ {cfg.Username} : fs[u] = before.fs[u]
        /\ \A c \in before.csrs :
              c.Name # CsrName(cfg.Username) => c.Name \in CsrNames(csrs)


\* C30 (as claimed): after a CreateUser has returned nil, the binding that
\* bears the name of each binding it asked for is a binding of this username
\* to this role: created by this call, or found by it ("already exists") from
\* an earlier call for the same username and role, never one of another
\* identity.
C30_BindingNameIsInjective ==
    CreateOK =>
        /\ cfg.ClusterRole # <<>> =>
              \A b \in Named(crbs, BindingName(cfg.Username, cfg.ClusterRole)) :
                  CreatedFor(b) = cfg.Username /\ b.RoleRef.Name = cfg.ClusterRole
        /\ (cfg.Role # <<>> /\ cfg.Namespace # "") =>
              \A b \in NamedIn(rbs, BindingName(cfg.Username, cfg.Role), cfg.Namespace) :
                  CreatedFor(b) = cfg.Username /\ b.RoleRef.Name = cfg.Role


\* ------------------------------------------- claims on concurrent invocations

\* Both concurrent invocations have returned.
BothDone ==
    /\ pc = "done"
    /\ parked.pc = "done"
    /\ op \in {"create", "delete"}
    /\ parked.op \in {"create", "delete"}

\* The invocation returned nil and none of its API or file calls failed.
FaultFree(invocation) == invocation.err = "nil" /\ invocation.faults = {}

\* What a CreateUser in which no call fails does to the bindings s of the
\* authorization store: each binding asked for is created unless one of its
\* name exists.
CreateUserBindings(s, c) ==
    LET crb == ClusterRoleBinding(c.Username, c.Groups, c.ClusterRole)
        rb == RoleBinding(c.Username, c.Groups, c.Role, c.Namespace)
    IN  [crbs |-> IF c.ClusterRole # <<>> /\ Named(s.crbs, crb.Name) = {}
                  THEN s.crbs \cup {crb} ELSE s.crbs,
         rbs |-> IF /\ c.Role # <<>>
                    /\ c.Namespace # ""
                    /\ NamedIn(s.rbs, rb.Name, c.Namespace) = {}
                 THEN s.rbs \cup {rb} ELSE s.rbs]

\* What a DeleteUser in which no call fails does to them.
DeleteUserBindings(s, username) ==
    [crbs |-> {b \in s.crbs : ~HasUserPrefix(b.Name, username)},
     rbs |-> {b \in s.rbs : ~HasUserPrefix(b.Name, username)}]

Effect(s, invocation) ==
    IF invocation.op = "create" THEN CreateUserBindings(s, invocation.cfg)
    ELSE DeleteUserBindings(s, invocation.cfg.Username)

\* The bindings after the two invocations ran one after the other, in either
\* order, on an empty authorization store.
SerialOutcomes(first, second) ==
    LET empty == [crbs |-> {}, rbs |-> {}]
    IN  {Effect(Effect(empty, first), second), Effect(Effect(empty, second), first)}

\* C21 (as claimed): when two concurrent invocations of CreateUser or DeleteUser
\* on different usernames have both returned, no call of either having failed,
\* the bindings of the authorization store are those that one of the two
\* serial orders of the same invocations leaves.
C21_NoLostUpdates ==
    (/\ BothDone
     /\ cfg.Username # parked.cfg.Username
     /\ FaultFree(Context)
     /\ FaultFree(parked))
        => [crbs |-> crbs, rbs |-> rbs] \in SerialOutcomes(Context, parked)


\* A kubeconfig whose client certificate was issued for another key than the
\* client key beside it.
Mismatched(bundle) ==
    \E a \in bundle.AuthInfos : a.ClientCertificateData.pub # a.ClientKeyData.priv

\* The invocation has performed step s, and s did not fail.
Did(invocation, s) ==
    /\ s \in Range(invocation.log)
    /\ (invocation.pc = "done" /\ invocation.err # "nil")
          => invocation.log[Len(invocation.log)] # s

\* The other invocation is a CreateUser for the same username that has
\* performed step s.
OtherCreateDid(s) ==
    /\ parked.op = "create"
    /\ parked.cfg.Username = cfg.Username
    /\ Did(parked, s)

\* Two invocations at most have been begun: the running one and the one in
\* `parked` are then all there ever were (a finished invocation has not been
\* followed by another in its place).
TwoInvocations == calls <= 2

\* C26: (witness) two concurrent CreateUser calls for one username have an
\* interleaving in which a call returns nil and the kubeconfig it wrote pairs a
\* certificate with a key it was not issued for; (every step) when
\* createKubeconfig writes a kubeconfig whose key is not the key this call
\* generated, the key is one that another call's generatePrivateKey made, and
\* likewise the key of a certificate that is not for this call's key; and among
\* two invocations, the claim's case, another CreateUser for the username has
\* saved its key in between when the key differs, and has submitted its signing
\* request in between when the certificate differs.
C26_RaceNeedsOverlap ==
    [][(/\ op = "create"
        /\ pc = "kubeconfig"
        /\ pc' = "bindcluster"
        /\ parked' = parked) =>
          \A a \in fs'[cfg.Username].kubeconfig[1].AuthInfos :
            /\ a.ClientKeyData.priv # local.privateKey[1] =>
                  /\ a.ClientKeyData.priv \in (1..nkeys) \ {local.privateKey[1]}
                  /\ TwoInvocations => OtherCreateDid("savekey")
            /\ a.ClientCertificateData.pub # local.privateKey[1] =>
                  /\ a.ClientCertificateData.pub \in (1..nkeys) \ {local.privateKey[1]}
                  /\ TwoInvocations => OtherCreateDid("submit")
      ]_vars

\* The call returned nil; the kubeconfig of the username is the one it wrote
\* (the other call has not come to write one), and its key and certificate do
\* not belong together.
C26_Witness ==
    /\ CreateOK
    /\ parked.op = "create"
    /\ parked.cfg.Username = cfg.Username
    /\ "kubeconfig" \notin Range(parked.log)
    /\ Mismatched(fs[cfg.Username].kubeconfig[1])


\* ---------------------------------------- claims on the cluster configuration

\* C22: config.Load returns no Config and an error when the file cannot be
\* read, is not YAML, or holds a configuration that Validate rejects; otherwise
\* it returns the decoded Config and no error. It never returns both, and never
\* neither.
C22_LoadReturnsConfigOrError ==
    loaded.call = "Load" =>
        LET failed == \/ ~configFile.exists
                      \/ ~configFile.wellFormed
                      \/ Validate(Unmarshal(configFile.document)) # <<>>
        IN  /\ failed => (loaded.cfg = <<>> /\ loaded.err # <<>>)
            /\ ~failed => (loaded.cfg = <<Unmarshal(configFile.document)>>
                           /\ loaded.err = <<>>)
            /\ (loaded.cfg = <<>>) # (loaded.err = <<>>)

\* Load on a file that is read and decoded, and whose only defect is that no
\* node is a control plane.
C22_Witness ==
    /\ loaded.call = "Load"
    /\ configFile.wellFormed
    /\ loaded.cfg = <<>>
    /\ Len(loaded.err) = 2
    /\ loaded.err[2].text = "at least one node with role 'controlplane' is required"

\* The least index of a node with role "controlplane", 0 when there is none.
FirstControlPlane(nodes) ==
    LET with == {i \in 1..Len(nodes) : nodes[i].Role = "controlplane"}
    IN  IF with = {} THEN 0 ELSE CHOOSE i \in with : \A j \in with : i <= j

\* C23: Validate returns an error for every configuration without a node of
\* role "controlplane"; GetControlPlane returns the first node of the list with
\* that role, and nil exactly when there is none; so on every configuration
\* that Validate (or Load) accepted it returns a node, of role "controlplane".
C23_AcceptedHasControlPlane ==
    /\ loaded.call = "Validate" =>
          (FirstControlPlane(loaded.cfg[1].Nodes) = 0 => loaded.err # <<>>)
    /\ loaded.call = "GetControlPlane" =>
          LET nodes == loaded.cfg[1].Nodes IN
          /\ loaded.node = <<>> <=> FirstControlPlane(nodes) = 0
          /\ loaded.node # <<>> => loaded.node[1] = nodes[FirstControlPlane(nodes)]
          /\ loaded.err = <<>> =>
                (loaded.node # <<>> /\ loaded.node[1].Role = "controlplane")

\* An accepted configuration whose control plane is the second node.
C23_Witness ==
    /\ loaded.call = "GetControlPlane"
    /\ loaded.err = <<>>
    /\ Len(loaded.cfg[1].Nodes) = 2
    /\ loaded.cfg[1].Nodes[1].Role = "worker"
    /\ loaded.node = <<loaded.cfg[1].Nodes[2]>>

=============================================================================
